---- MODULE Spec2Model ----
(***************************************************************************)
(* Bookmark manager extension: the per-chat bookmark store, the bookmark   *)
(* index kept in the extension settings, the legacy migrator and the       *)
(* import engine (v1 / v2 / v3 payloads).                                  *)
(*                                                                         *)
(* Modelling decisions                                                     *)
(*  - A bookmark is a record [id, messageId, name, description, createdAt].*)
(*  - uuidv4() is a counter (nextId): every call returns a value that was  *)
(*    never returned before.  Ids found in files are either ids this       *)
(*    installation issued earlier or the foreign id FileId.                *)
(*  - The host keeps the metadata of the active chat in memory             *)
(*    (chatMetadata) and every chat as a file on the server (server).      *)
(*    saveMetadataDebounced() is modelled as writing the active chat's     *)
(*    file at once.                                                        *)
(*  - Every reader of the reserved metadata key treats an absent key and   *)
(*    an empty array alike (`!existing || existing.length === 0`,          *)
(*    `chatMetadata[KEY] || []`, load's else branch): both are the empty    *)
(*    sequence here.                                                        *)
(*  - loadBookmarks() makes `bookmarks` the very array stored in the       *)
(*    metadata.  Every in-place change of `bookmarks` is followed, in the  *)
(*    same synchronous run, by saveBookmarks(), which stores a copy or     *)
(*    finds no metadata at all; lists are therefore values here.           *)
(*  - An import is a task (job) that runs from one network request to the  *)
(*    next in one step; user events interleave between the steps.  The     *)
(*    groups of a v2/v3 payload are drawn when the loop reaches them: the  *)
(*    loops never look ahead, so this yields the same behaviours as a      *)
(*    payload fixed when the file is read.                                 *)
(*  - A stored chat is an array: a header object followed by the messages. *)
(*    What it holds besides the reserved key is kept in chatFiles; the     *)
(*    header of an old chat has no chat_metadata field.                    *)
(*  - A value under the reserved key that is no array is one distinguished *)
(*    list (NotAnArray); localStorage 'st_bookmarks' is absent, unparsable,*)
(*    a non-array, or an array.                                            *)
(*  - collectAll and the bulk erase are tasks like an import.  They are    *)
(*    studied with no user event between their steps; getContext() can     *)
(*    fail them (Hosts), and the index can hold the key of a character     *)
(*    that is no longer loaded.                                            *)
(***************************************************************************)
EXTENDS Integers, Sequences, FiniteSets, TLC

\* ---------------------------------------------------------------- bounds
MaxId == 1          \* uuidv4() hands out the ids 1..MaxId
MaxMsg == 2         \* message ids are 1..MaxMsg
MaxPayload == 2     \* bookmarks per payload group
MaxChars == 2       \* character groups of a v3 file
MaxChats == 1       \* chat groups of a v2 file or of a v3 character
MaxAdds == 2        \* bookmarks the user adds when the store alone is studied

FileId == 0         \* an id issued by another installation
OldIds == {-1, -2}  \* the ids of the bookmarks kept in localStorage
Names == {"X", "Y"}
Descriptions == {""}
Times == {1}        \* values of new Date()
FileTime == 0       \* createdAt of a record that comes from a file

\* ------------------------------------------------------- host collaborators
UndefChar == -1     \* context.characterId === undefined
UndefChat == "undefined"   \* context.chatId === undefined

\* context.characters: the loaded characters, indexed by characterId
characters == (0 :> "A") @@ (1 :> "B")
CharIds == DOMAIN characters
CharacterNames == {"A", "B", "Z"}    \* names found in files; "Z" is not loaded

\* the chat files of each character
ChatIds == {"c1", "c2"}
ChatsOf(c) == IF c = 0 THEN {"c1", "c2"} ELSE {"c1"}
Chats == {k \in CharIds \X ChatIds : k[2] \in ChatsOf(k[1])}

\* characterId.toString(); the settings of an earlier session can hold the
\* key "2" of a character that is no longer loaded
CharKeys == {"0", "1", "2"}
toString(c) == IF c = 0 THEN "0" ELSE "1"

\* parseInt(characterIdStr)
parseInt(characterIdStr) ==
    IF characterIdStr = "0" THEN 0 ELSE IF characterIdStr = "1" THEN 1 ELSE 2

\* the contexts getContext() can return: a chat of a character is open, or no
\* chat is open (ids undefined, metadata an object of no chat), or the
\* metadata is missing
Contexts ==
    {[characterId |-> k[1], chatId |-> k[2], hasMetadata |-> TRUE] : k \in Chats}
    \cup {[characterId |-> UndefChar, chatId |-> UndefChat, hasMetadata |-> h] :
            h \in BOOLEAN}

\* ---------------------------------------------------------------- records
NoEntry == -1       \* bookmarkIndex[characterKey][chatKey] is undefined
EmptyChats == [ch \in ChatIds |-> NoEntry]
NoCharacter == [present |-> FALSE, chats |-> EmptyChats]
EmptyIndex == [ck \in CharKeys |-> NoCharacter]

VARIABLES
    bookmarks,        \* let bookmarks: the in-memory list
    context,          \* what getContext() returns now
    chatMetadata,     \* context.chatMetadata[BOOKMARK_METADATA_KEY]
    server,           \* the reserved key in the stored file of every chat
    chatFiles,        \* the stored file of every chat but for the reserved key
    bookmarkIndex,    \* extension_settings[pluginName].bookmarkIndex
    legacy,           \* localStorage 'st_bookmarks'
    migrationCompleted, \* localStorage 'bookmark_migration_completed'
    nextId,           \* the next value of uuidv4()
    job,              \* the import task in progress
    report            \* what the step just taken reported (toastr + result)

vars == <<bookmarks, context, chatMetadata, server, chatFiles, bookmarkIndex,
          legacy, migrationCompleted, nextId, job, report>>

\* ----------------------------------------------------------- pure helpers
Range(s) == {s[i] : i \in DOMAIN s}

\* fault: the duplicate test looks at the message alone
SamePairByMessage(a, b) == a.messageId = b.messageId

\* existing.messageId === importBookmark.messageId && existing.name === importBookmark.name
SamePair(a, b) == a.messageId = b.messageId /\ a.name = b.name

\* list.some(existing => same pair as r)
Exists(list, r) == \E i \in DOMAIN list : SamePair(list[i], r)

Sorted(l) == \A i, j \in DOMAIN l : i < j => l[i].messageId <= l[j].messageId

\* Array.prototype.sort((a, b) => a.messageId - b.messageId): stable
RECURSIVE Insert(_, _)
Insert(r, s) ==
    IF s = <<>> THEN <<r>>
    ELSE IF r.messageId < Head(s).messageId THEN <<r>> \o s
    ELSE <<Head(s)>> \o Insert(r, Tail(s))

RECURSIVE SortByMessageId(_)
SortByMessageId(s) ==
    IF s = <<>> THEN <<>>
    ELSE Insert(s[Len(s)], SortByMessageId(SubSeq(s, 1, Len(s) - 1)))

\* bookmarks.findIndex(b => b.id === bookmarkId); 0 stands for -1
FindIndex(list, bookmarkId) ==
    IF \E i \in DOMAIN list : list[i].id = bookmarkId
    THEN CHOOSE i \in DOMAIN list :
            /\ list[i].id = bookmarkId
            /\ \A j \in DOMAIN list : list[j].id = bookmarkId => i <= j
    ELSE 0

\* bookmarks.splice(index, 1)
Splice(list, index) ==
    SubSeq(list, 1, index - 1) \o SubSeq(list, index + 1, Len(list))

\* ------------------------------------------------------------ the index
\* fault: the chat entry is deleted, the emptied character map is kept
updateBookmarkIndexKeepCharacter(index, characterId, chatId, bookmarkCount) ==
    IF characterId = UndefChar \/ chatId = UndefChat THEN index
    ELSE [index EXCEPT
            ![toString(characterId)].present = TRUE,
            ![toString(characterId)].chats[chatId] =
                IF bookmarkCount > 0 THEN bookmarkCount ELSE NoEntry]

\* updateBookmarkIndex(characterId, chatId, bookmarkCount)
updateBookmarkIndex(index, characterId, chatId, bookmarkCount) ==
    IF characterId = UndefChar \/ chatId = UndefChat THEN index
    ELSE
        LET characterKey == toString(characterId)
            present == [index EXCEPT ![characterKey].present = TRUE]
        IN  IF bookmarkCount > 0
            THEN [present EXCEPT ![characterKey].chats[chatId] = bookmarkCount]
            ELSE LET removed == [present EXCEPT ![characterKey].chats[chatId] = NoEntry]
                 IN  IF \A ch \in ChatIds : removed[characterKey].chats[ch] = NoEntry
                     THEN [removed EXCEPT ![characterKey] = NoCharacter]
                     ELSE removed

\* ------------------------------------------------------------- the store
\* The state the synchronous store functions read and write.
Mem == [bookmarks |-> bookmarks, context |-> context,
        chatMetadata |-> chatMetadata, server |-> server,
        bookmarkIndex |-> bookmarkIndex,
        migrationCompleted |-> migrationCompleted, nextId |-> nextId]

ActiveKey(m) == <<m.context.characterId, m.context.chatId>>

\* saveMetadataDebounced(): the host writes the active chat's file
saveMetadataDebounced(m) ==
    IF ActiveKey(m) \in Chats
    THEN [m EXCEPT !.server[ActiveKey(m)] = m.chatMetadata]
    ELSE m

\* an in-place change of the array `bookmarks` (push, sort, splice, a field
\* of an element)
SetBookmarks(m, list) == [m EXCEPT !.bookmarks = list]

\* fault: the index is updated, the list is not put into the metadata
saveBookmarksNoStore(m) ==
    IF ~m.context.hasMetadata THEN m
    ELSE [m EXCEPT !.bookmarkIndex =
             updateBookmarkIndex(m.bookmarkIndex, m.context.characterId,
                                 m.context.chatId, Len(m.bookmarks))]

\* fault: the list is stored, the index is left as it was
saveBookmarksNoIndex(m) ==
    IF ~m.context.hasMetadata THEN m
    ELSE saveMetadataDebounced([m EXCEPT !.chatMetadata = m.bookmarks])

\* saveBookmarks()
saveBookmarks(m) ==
    IF ~m.context.hasMetadata THEN m
    ELSE LET stored == [m EXCEPT !.chatMetadata = m.bookmarks]
             saved == saveMetadataDebounced(stored)
         IN  [saved EXCEPT !.bookmarkIndex =
                 updateBookmarkIndex(saved.bookmarkIndex, m.context.characterId,
                                     m.context.chatId, Len(m.bookmarks))]

\* a value under the reserved key that is not an array.  The store keeps
\* lists; this one list stands for every such value and isArray tells it
\* apart.
NotAnArray ==
    <<[id |-> FileId, messageId |-> 0, name |-> "not an array",
       description |-> "", createdAt |-> FileTime]>>

\* Array.isArray(value)
isArray(value) == value # NotAnArray

\* !existingBookmarks || !Array.isArray(existingBookmarks)
\*     || existingBookmarks.length === 0
noBookmarks(existingBookmarks) ==
    existingBookmarks = <<>> \/ ~isArray(existingBookmarks)

\* fault: the legacy list is copied over whatever the chat holds
migrateOldBookmarksOverwrite(m) ==
    IF m.migrationCompleted THEN m
    ELSE IF legacy.kind = "absent" THEN [m EXCEPT !.migrationCompleted = TRUE]
    ELSE IF legacy.kind = "unparsable" THEN m
    ELSE IF legacy.kind # "array" \/ legacy.list = <<>>
         THEN [m EXCEPT !.migrationCompleted = TRUE]
    ELSE LET copied ==
                IF m.context.hasMetadata
                THEN saveMetadataDebounced(
                        [m EXCEPT !.chatMetadata = legacy.list])
                ELSE m
         IN  [copied EXCEPT !.migrationCompleted = TRUE]

\* fault: the flag is not looked at
migrateOldBookmarksEveryLoad(m) ==
    IF legacy.kind = "absent" THEN [m EXCEPT !.migrationCompleted = TRUE]
    ELSE IF legacy.kind = "unparsable" THEN m
    ELSE IF legacy.kind # "array" \/ legacy.list = <<>>
         THEN [m EXCEPT !.migrationCompleted = TRUE]
    ELSE LET copied ==
                IF m.context.hasMetadata /\ noBookmarks(m.chatMetadata)
                THEN saveMetadataDebounced(
                        [m EXCEPT !.chatMetadata = legacy.list])
                ELSE m
         IN  [copied EXCEPT !.migrationCompleted = TRUE]

\* fault: a legacy list is copied halfway
migrateOldBookmarksFirstOnly(m) ==
    IF m.migrationCompleted THEN m
    ELSE IF legacy.kind = "absent" THEN [m EXCEPT !.migrationCompleted = TRUE]
    ELSE IF legacy.kind = "unparsable" THEN m
    ELSE IF legacy.kind # "array" \/ legacy.list = <<>>
         THEN [m EXCEPT !.migrationCompleted = TRUE]
    ELSE LET copied ==
                IF m.context.hasMetadata /\ noBookmarks(m.chatMetadata)
                THEN saveMetadataDebounced(
                        [m EXCEPT !.chatMetadata = <<Head(legacy.list)>>])
                ELSE m
         IN  [copied EXCEPT !.migrationCompleted = TRUE]

\* migrateOldBookmarks().  JSON.parse of a value that is no JSON throws: the
\* catch block logs the error and the flag stays unset.
migrateOldBookmarks(m) ==
    IF m.migrationCompleted THEN m
    ELSE IF legacy.kind = "absent" THEN [m EXCEPT !.migrationCompleted = TRUE]
    ELSE IF legacy.kind = "unparsable" THEN m
    ELSE IF legacy.kind # "array" \/ legacy.list = <<>>
         THEN [m EXCEPT !.migrationCompleted = TRUE]
    ELSE LET copied ==
                IF m.context.hasMetadata /\ noBookmarks(m.chatMetadata)
                THEN saveMetadataDebounced(
                        [m EXCEPT !.chatMetadata = legacy.list])
                ELSE m
         IN  [copied EXCEPT !.migrationCompleted = TRUE]

\* fault: the stored list is merged into the list in memory
loadBookmarksMerge(m) ==
    IF ~m.context.hasMetadata
    THEN [m EXCEPT !.bookmarks = <<>>]
    ELSE LET g == migrateOldBookmarks(m)
             found == IF isArray(g.chatMetadata) THEN g.chatMetadata ELSE <<>>
         IN  [g EXCEPT !.bookmarks =
                m.bookmarks \o SelectSeq(found,
                    LAMBDA r : \A i \in DOMAIN m.bookmarks :
                                  m.bookmarks[i] # r)]

\* fault: whatever is found under the reserved key becomes the list
loadBookmarksAnyValue(m) ==
    IF ~m.context.hasMetadata
    THEN [m EXCEPT !.bookmarks = <<>>]
    ELSE LET g == migrateOldBookmarks(m)
         IN  [g EXCEPT !.bookmarks = g.chatMetadata]

\* loadBookmarks()
loadBookmarks(m) ==
    IF ~m.context.hasMetadata
    THEN [m EXCEPT !.bookmarks = <<>>]
    ELSE LET g == migrateOldBookmarks(m)
         IN  [g EXCEPT !.bookmarks =
                IF isArray(g.chatMetadata) THEN g.chatMetadata ELSE <<>>]

\* the variables of Mem after a synchronous run that ends in m
Commit(m) ==
    /\ bookmarks' = m.bookmarks
    /\ context' = m.context
    /\ chatMetadata' = m.chatMetadata
    /\ server' = m.server
    /\ bookmarkIndex' = m.bookmarkIndex
    /\ migrationCompleted' = m.migrationCompleted
    /\ nextId' = m.nextId

\* bookmarks.push({ id, messageId, name, description, createdAt })
Pushed(list, messageId, name, description, now, id) ==
    Append(list, [id |-> id, messageId |-> messageId, name |-> name,
                  description |-> description, createdAt |-> now])

\* fault: the new bookmark stays where push() put it
addBookmarkUnsorted(m, messageId, name, description, now) ==
    saveBookmarks([SetBookmarks(m, Pushed(m.bookmarks, messageId, name,
                                          description, now, m.nextId))
                      EXCEPT !.nextId = m.nextId + 1])

\* fault: the new bookmark takes the place of the bookmarks of its message
addBookmarkReplace(m, messageId, name, description, now) ==
    LET others == SelectSeq(m.bookmarks, LAMBDA r : r.messageId # messageId)
        pushed == SetBookmarks(m, Pushed(others, messageId, name,
                                         description, now, m.nextId))
        sorted == SetBookmarks(pushed, SortByMessageId(pushed.bookmarks))
    IN  saveBookmarks([sorted EXCEPT !.nextId = m.nextId + 1])

\* addBookmark(messageId, name, description)
addBookmark(m, messageId, name, description, now) ==
    LET pushed == SetBookmarks(m, Pushed(m.bookmarks, messageId, name,
                                         description, now, m.nextId))
        sorted == SetBookmarks(pushed, SortByMessageId(pushed.bookmarks))
    IN  saveBookmarks([sorted EXCEPT !.nextId = m.nextId + 1])

\* fault: the edit stamps the bookmark with the time of the edit
editBookmarkRestamp(m, bookmarkId, name, description) ==
    LET i == FindIndex(m.bookmarks, bookmarkId)
    IN  IF i = 0 THEN m
        ELSE saveBookmarks(SetBookmarks(m,
                [m.bookmarks EXCEPT ![i].name = name,
                                    ![i].description = description,
                                    ![i].createdAt = 1]))

\* editBookmark(bookmarkId, name, description)
editBookmark(m, bookmarkId, name, description) ==
    LET i == FindIndex(m.bookmarks, bookmarkId)
    IN  IF i = 0 THEN m
        ELSE saveBookmarks(SetBookmarks(m,
                [m.bookmarks EXCEPT ![i].name = name,
                                    ![i].description = description]))

\* fault: splice(index) takes the bookmark and every one behind it
deleteBookmarkToEnd(m, bookmarkId) ==
    LET index == FindIndex(m.bookmarks, bookmarkId)
    IN  IF index = 0 THEN m
        ELSE saveBookmarks(SetBookmarks(m, SubSeq(m.bookmarks, 1, index - 1)))

\* deleteBookmark(bookmarkId)
deleteBookmark(m, bookmarkId) ==
    LET index == FindIndex(m.bookmarks, bookmarkId)
    IN  IF index = 0 THEN m
        ELSE saveBookmarks(SetBookmarks(m, Splice(m.bookmarks, index)))

\* ------------------------------------------------------ the import engine
\* the bookmark lists a file can hold
\* (records written by another installation, and one record that carries an
\* id found in this installation)
PayloadRecs ==
    {[id |-> FileId, messageId |-> mid, name |-> n, description |-> "",
      createdAt |-> FileTime] : mid \in 1..MaxMsg, n \in Names}
    \cup {[id |-> -1, messageId |-> 1, name |-> "Y", description |-> "",
           createdAt |-> FileTime]}
PayloadLists ==
    UNION {[1..len -> PayloadRecs] : len \in 0..MaxPayload}

\* what JSON.parse(e.target.result) yields, as far as the format detection
\* reads it
Versions == {"none", "1.0", "2.0", "3.0"}
Files ==
    {[parsable |-> FALSE, version |-> "none", bookmarks |-> FALSE,
      chatBookmarks |-> FALSE, characterBookmarks |-> FALSE]}
    \cup {f \in [parsable : {TRUE}, version : Versions, bookmarks : BOOLEAN,
                  chatBookmarks : BOOLEAN, characterBookmarks : BOOLEAN] :
            Cardinality({a \in {"b", "c", "h"} :
                            \/ a = "b" /\ f.bookmarks
                            \/ a = "c" /\ f.chatBookmarks
                            \/ a = "h" /\ f.characterBookmarks}) <= 1}

\* fault: the version marker alone decides, the arrays are not looked at
DetectByVersion(importData) ==
    IF ~importData.parsable THEN "throw"
    ELSE IF importData.bookmarks /\ importData.version # "2.0" THEN "v1"
    ELSE IF importData.version = "2.0" THEN "v2"
    ELSE IF importData.version = "3.0" THEN "v3"
    ELSE "unsupported"

\* the branch importBookmarkData's reader.onload takes
Detect(importData) ==
    IF ~importData.parsable THEN "throw"
    ELSE IF importData.bookmarks /\ importData.version # "2.0" THEN "v1"
    ELSE IF importData.version = "2.0" /\ importData.chatBookmarks THEN "v2"
    ELSE IF importData.version = "3.0" /\ importData.characterBookmarks THEN "v3"
    ELSE "unsupported"

\* fault: the record is pushed as it is in the file
newBookmarkKeepId(importBookmark, id) == importBookmark

\* { ...importBookmark, id: uuidv4() }
newBookmark(importBookmark, id) == [importBookmark EXCEPT !.id = id]

\* imports.forEach(importBookmark => { const exists = list.some(...);
\*     if (!exists) { list.push({...importBookmark, id: uuidv4()}); ... } })
RECURSIVE MergeEach(_, _, _)
MergeEach(acc, imports, i) ==
    IF i > Len(imports) THEN acc
    ELSE IF Exists(acc.list, imports[i])
         THEN MergeEach([acc EXCEPT !.duplicatedCount = @ + 1], imports, i + 1)
         ELSE MergeEach([acc EXCEPT
                            !.list = Append(@, newBookmark(imports[i], acc.nextId)),
                            !.nextId = @ + 1,
                            !.importedCount = @ + 1],
                        imports, i + 1)

\* fault: the duplicate test looks only at the records merged in this pass
MergeAmongImports(list, imports, id) ==
    LET r == MergeEach([list |-> <<>>, nextId |-> id, importedCount |-> 0,
                        duplicatedCount |-> 0], imports, 1)
    IN  [r EXCEPT !.list = list \o r.list]

Merge(list, imports, id) ==
    MergeEach([list |-> list, nextId |-> id, importedCount |-> 0,
               duplicatedCount |-> 0], imports, 1)

\* the merge of a payload list into the in-memory list, followed by
\* bookmarks.sort(...) and saveBookmarks(): importLegacyBookmarks() and the
\* current-chat branch of importV2ToOriginalChats / importV3ToOriginalLocations
importLegacyBookmarks(m, legacyBookmarks) ==
    LET r == Merge(m.bookmarks, legacyBookmarks, m.nextId)
        pushed == SetBookmarks([m EXCEPT !.nextId = r.nextId], r.list)
        sorted == SetBookmarks(pushed, SortByMessageId(pushed.bookmarks))
    IN  [m |-> saveBookmarks(sorted), importedCount |-> r.importedCount,
         duplicatedCount |-> r.duplicatedCount]

\* fault: the merged list is put under the reserved key as it was pushed
mergeRemoteUnsorted(existingBookmarks, imports, id) ==
    Merge(existingBookmarks, imports, id)

\* the merge of a payload list into the list fetched from a chat file:
\* mergedBookmarks and the sorted list put under the reserved key
mergeRemote(existingBookmarks, imports, id) ==
    LET r == Merge(existingBookmarks, imports, id)
    IN  [r EXCEPT !.list = SortByMessageId(r.list)]

\* context.characters.find(char => char && char.name === characterName) and
\* context.characters.indexOf(targetCharacter); UndefChar when nothing matches
findCharacter(characterName) ==
    IF \E c \in CharIds : characters[c] = characterName
    THEN CHOOSE c \in CharIds :
            /\ characters[c] = characterName
            /\ \A d \in CharIds : characters[d] = characterName => c <= d
    ELSE UndefChar

\* chatData.fileName.replace('.jsonl', '')
stripJsonl(fileName) == IF fileName = "c2.jsonl" THEN "c2" ELSE fileName
FileNames == ChatIds

\* a stored chat is an array: element 1 is the header object, the other
\* elements are the messages.  The header of a chat keeps its metadata in the
\* field chat_metadata; the header of an old chat has no such field.  The
\* reserved key itself is kept in `server`.
WrappedFirst == [user_name |-> "u", chat_metadata |-> [note |-> "n"]]
FlatFirst == [user_name |-> "u"]
Messages == <<"m1", "m2">>
WrappedFile == <<WrappedFirst>> \o Messages
FlatFile == <<FlatFirst>> \o Messages

\* { ...obj, [key]: val }
Spread(obj, key, val) ==
    [k \in DOMAIN obj \cup {key} |-> IF k = key THEN val ELSE obj[k]]

\* firstItem.chat_metadata || firstItem
metadataOf(firstItem) ==
    IF "chat_metadata" \in DOMAIN firstItem THEN firstItem.chat_metadata
    ELSE firstItem

\* chatContentToSave: [{ ...chatDataResponse[0], chat_metadata: chatMetadata },
\*                      ...chatDataResponse.slice(1)]
chatContentToSave(chatDataResponse) ==
    <<Spread(chatDataResponse[1], "chat_metadata",
             metadataOf(chatDataResponse[1]))>> \o Tail(chatDataResponse)

\* the current-chat test of the two loops
isCurrentChat(j, fileName, isCurrent) ==
    IF j.version = "2.0"
    THEN isCurrent \/ fileName = j.chatId
    ELSE j.character = j.characterId /\ fileName = j.chatId

\* --------------------------------------------------------------- actions
NoReport == [op |-> "none", kind |-> "none", importedCount |-> 0,
             duplicatedCount |-> 0, processedChats |-> 0,
             processedCharacters |-> 0, notFoundCharacters |-> <<>>,
             result |-> <<>>, deletedCharacters |-> 0, deletedChats |-> 0,
             totalErrors |-> 0]

\* the locals of importV2ToOriginalChats / importV3ToOriginalLocations:
\* pc is where the task stands ("chars": head of the character loop, "chats":
\* head of the chat loop, "fetch" / "save" / "verify": awaiting the response),
\* characterId and chatId are the `context` taken when the task started,
\* pending counts the requests that have been sent and not answered
Idle == [pc |-> "idle", version |-> "none", characterId |-> UndefChar,
         chatId |-> UndefChat, charsLeft |-> 0, chatsLeft |-> 0,
         character |-> UndefChar, fileName |-> "", mergedBookmarks |-> <<>>,
         chatContentToSave |-> <<>>, pending |-> 0,
         processedCharacters |-> 0, processedChats |-> 0,
         totalImported |-> 0, notFoundCharacters |-> <<>>]

\* the task is executing: no event handler runs until it awaits or returns
Busy == job.pc \in {"chars", "chats", "ckeys", "cchats", "ekeys", "echats"}

LegacyList ==
    <<[id |-> -1, messageId |-> 1, name |-> "X", description |-> "",
       createdAt |-> FileTime],
      [id |-> -2, messageId |-> 2, name |-> "X", description |-> "",
       createdAt |-> FileTime]>>

LegacyValues ==
    {[kind |-> "absent", list |-> <<>>],
     [kind |-> "array", list |-> LegacyList]}

\* the host opens another chat (or closes the chat) and emits CHAT_CHANGED:
\* handleChatChanged()
handleChatChanged(m) ==
    LET loaded == loadBookmarks(m)
    IN  IF m.context.characterId # UndefChar /\ m.context.chatId # UndefChat
        THEN [loaded EXCEPT !.bookmarkIndex =
                updateBookmarkIndex(loaded.bookmarkIndex, m.context.characterId,
                                    m.context.chatId, Len(loaded.bookmarks))]
        ELSE loaded

\* initializeBookmarkManager() when no chat holds bookmarks: the settings hold
\* the index index0, the chat files are files0, loadBookmarks() runs and the
\* index is synchronised
InitWith(index0, files0) ==
    /\ context \in Contexts
    /\ legacy \in LegacyValues
    /\ job = Idle
    /\ report = NoReport
    /\ chatFiles = files0
    /\ LET m0 == [bookmarks |-> <<>>, context |-> context,
                  chatMetadata |-> <<>>,
                  server |-> [k \in Chats |-> <<>>],
                  bookmarkIndex |-> index0,
                  migrationCompleted |-> FALSE, nextId |-> 1]
           m2 == handleChatChanged(m0)
       IN  /\ bookmarks = m2.bookmarks
           /\ chatMetadata = m2.chatMetadata
           /\ server = m2.server
           /\ bookmarkIndex = m2.bookmarkIndex
           /\ migrationCompleted = m2.migrationCompleted
           /\ nextId = m2.nextId

\* a fresh installation: the index is empty, every chat has a header with
\* chat_metadata
WrappedFiles == [k \in Chats |-> WrappedFile]
Init == InitWith(EmptyIndex, WrappedFiles)

\* the user adds a bookmark to a message (createBookmarkModal -> addBookmark)
AddOf(messageId, name, description, now) ==
    /\ ~Busy
    /\ Commit(addBookmark(Mem, messageId, name, description, now))
    /\ report' = NoReport
    /\ UNCHANGED <<legacy, chatFiles, job>>

\* uuidv4() hands out the ids 1..maxId
AddUpTo(maxId) ==
    /\ nextId <= maxId
    /\ \E messageId \in 1..MaxMsg, name \in Names, now \in Times :
          AddOf(messageId, name, "", now)

Add == AddUpTo(MaxId)

\* the ids the user can point at when at most maxId bookmarks were added
BookmarkIds(maxId) == 1..maxId \cup OldIds \cup {FileId}

\* the user edits a bookmark (editBookmarkModal -> editBookmark)
EditOf(bookmarkId, name, description) ==
    /\ ~Busy
    /\ Commit(editBookmark(Mem, bookmarkId, name, description))
    /\ report' = NoReport
    /\ UNCHANGED <<legacy, chatFiles, job>>

EditAmong(ids, descriptions) ==
    \E bookmarkId \in ids, name \in Names, description \in descriptions :
        EditOf(bookmarkId, name, description)

Edit == EditAmong(BookmarkIds(MaxId), Descriptions)

\* the user deletes a bookmark (confirmDeleteBookmark -> deleteBookmark)
DeleteOf(bookmarkId) ==
    /\ ~Busy
    /\ Commit(deleteBookmark(Mem, bookmarkId))
    /\ report' = NoReport
    /\ UNCHANGED <<legacy, chatFiles, job>>

DeleteAmong(ids) == \E bookmarkId \in ids : DeleteOf(bookmarkId)

Delete == DeleteAmong(BookmarkIds(MaxId))

\* the host opens another chat (or closes the chat) and emits CHAT_CHANGED;
\* ctxs are the contexts the user moves between
ChatChangedTo(ctxs) ==
    /\ ~Busy
    /\ \E ctx \in ctxs \ {context} :
          LET key == <<ctx.characterId, ctx.chatId>>
              opened == [Mem EXCEPT !.context = ctx, !.chatMetadata =
                            IF key \in Chats THEN server[key] ELSE <<>>]
          IN  Commit(handleChatChanged(opened))
    /\ report' = NoReport
    /\ UNCHANGED <<legacy, chatFiles, job>>

ChatChanged == ChatChangedTo(Contexts)

\* while imports are studied the user moves between the two chats of
\* character 0 and the state with no chat open
ImportContexts == {c \in Contexts : c.characterId # 1 /\ c.hasMetadata}
ChatSwitched == ChatChangedTo(ImportContexts)

\* the ids a file can hold are ids issued so far or FileId
Issued(list) == \A i \in DOMAIN list : list[i].id < nextId

\* the merge of imports into list asks uuidv4() for ids of 1..MaxId only
WithinIds(list, imports) == Merge(list, imports, nextId).nextId <= MaxId + 1

ErrorReport == [NoReport EXCEPT !.op = "import", !.kind = "error"]

\* importBookmarkData, reader.onload: the file importData has been read; a v1
\* file holds legacyBookmarks, a v2 / v3 file holds n groups
OnLoad(importData, legacyBookmarks, n) ==
    /\ job.pc = "idle"
    /\ LET branch == Detect(importData)
       IN  CASE branch = "v1" ->
                  LET r == importLegacyBookmarks(Mem, legacyBookmarks)
                  IN  /\ Issued(legacyBookmarks)
                      /\ Commit(r.m)
                      /\ report' = [NoReport EXCEPT
                            !.op = "v1",
                            !.kind = IF r.importedCount > 0 THEN "success"
                                     ELSE "info",
                            !.importedCount = r.importedCount,
                            !.duplicatedCount = r.duplicatedCount]
                      /\ UNCHANGED <<legacy, chatFiles, job>>
             [] branch = "v2" /\ context.characterId # UndefChar ->
                  /\ job' = [Idle EXCEPT !.pc = "chats", !.version = "2.0",
                                !.characterId = context.characterId,
                                !.chatId = context.chatId,
                                !.character = context.characterId,
                                !.chatsLeft = n]
                  /\ report' = NoReport
                  /\ UNCHANGED <<bookmarks, context, chatMetadata,
                                 server, bookmarkIndex, legacy, chatFiles,
                                 migrationCompleted, nextId>>
             [] branch = "v3" ->
                  /\ job' = [Idle EXCEPT !.pc = "chars", !.version = "3.0",
                                !.characterId = context.characterId,
                                !.chatId = context.chatId,
                                !.charsLeft = n]
                  /\ report' = NoReport
                  /\ UNCHANGED <<bookmarks, context, chatMetadata,
                                 server, bookmarkIndex, legacy, chatFiles,
                                 migrationCompleted, nextId>>
             [] OTHER ->
                  \* JSON.parse or importV2ToOriginalChats threw, or the
                  \* format is not supported: toastr.error
                  /\ report' = ErrorReport
                  /\ UNCHANGED <<bookmarks, context, chatMetadata,
                                 server, bookmarkIndex, legacy, chatFiles,
                                 migrationCompleted, nextId, job>>

Import ==
    \E importData \in Files :
        IF Detect(importData) = "v1"
        THEN \E legacyBookmarks \in PayloadLists :
                /\ WithinIds(bookmarks, legacyBookmarks)
                /\ OnLoad(importData, legacyBookmarks, 0)
        ELSE IF Detect(importData) \in {"v2", "v3"}
        THEN \E n \in 0..(IF Detect(importData) = "v2" THEN MaxChats
                         ELSE MaxChars) : OnLoad(importData, <<>>, n)
        ELSE OnLoad(importData, <<>>, 0)

\* fault: a character that is not found ends the character loop
V3CharacterAbort(characterName, nChats) ==
    /\ job.pc = "chars"
    /\ job.charsLeft > 0
    /\ LET targetCharacter == findCharacter(characterName)
       IN  IF targetCharacter = UndefChar
           THEN job' = [job EXCEPT
                          !.notFoundCharacters = Append(@, characterName),
                          !.charsLeft = 0]
           ELSE job' = [job EXCEPT !.pc = "chats",
                          !.character = targetCharacter,
                          !.chatsLeft = nChats,
                          !.charsLeft = @ - 1]
    /\ report' = NoReport
    /\ UNCHANGED <<bookmarks, context, chatMetadata, server,
                   bookmarkIndex, legacy, chatFiles, migrationCompleted, nextId>>

\* importV3ToOriginalLocations: the character loop reads the next group
\* charData, which holds characterName and nChats chats
V3Character(characterName, nChats) ==
    /\ job.pc = "chars"
    /\ job.charsLeft > 0
    /\ LET targetCharacter == findCharacter(characterName)
       IN  IF targetCharacter = UndefChar
           THEN job' = [job EXCEPT
                          !.notFoundCharacters = Append(@, characterName),
                          !.charsLeft = @ - 1]
           ELSE job' = [job EXCEPT !.pc = "chats",
                          !.character = targetCharacter,
                          !.chatsLeft = nChats,
                          !.charsLeft = @ - 1]
    /\ report' = NoReport
    /\ UNCHANGED <<bookmarks, context, chatMetadata, server,
                   bookmarkIndex, legacy, chatFiles, migrationCompleted, nextId>>

ImportCharacter ==
    \E characterName \in CharacterNames :
        IF findCharacter(characterName) = UndefChar
        THEN V3Character(characterName, 0)
        ELSE \E nChats \in 0..MaxChats : V3Character(characterName, nChats)

\* a chat loop that sends the request of a remote chat and goes on to the
\* next chat without awaiting the response
ChatGroupNoAwait(fileName, isCurrent, imports) ==
    /\ job.pc = "chats"
    /\ job.chatsLeft > 0
    /\ imports = <<>>
    /\ job' = [job EXCEPT !.fileName = stripJsonl(fileName),
                 !.pending = @ + 1,
                 !.chatsLeft = @ - 1]
    /\ report' = NoReport
    /\ UNCHANGED <<bookmarks, context, chatMetadata, server, bookmarkIndex,
                   migrationCompleted, nextId, legacy, chatFiles>>

\* the chat loop reads the next group chatData: either the current chat, which
\* is merged in memory, or another chat, whose file is requested
ChatGroup(fileName, isCurrent, imports) ==
    /\ job.pc = "chats"
    /\ job.chatsLeft > 0
    /\ IF isCurrentChat(job, fileName, isCurrent)
       THEN LET r == importLegacyBookmarks(Mem, imports)
            IN  /\ Issued(imports)
                /\ Commit(r.m)
                /\ job' = [job EXCEPT
                             !.totalImported = @ + r.importedCount,
                             !.processedChats = @ + 1,
                             !.chatsLeft = @ - 1]
       ELSE /\ imports = <<>>
            /\ job' = [job EXCEPT !.pc = "fetch",
                         !.fileName = stripJsonl(fileName),
                         !.pending = @ + 1,
                         !.chatsLeft = @ - 1]
            /\ UNCHANGED <<bookmarks, context, chatMetadata, server,
                           bookmarkIndex, migrationCompleted, nextId>>
    /\ report' = NoReport
    /\ UNCHANGED <<legacy, chatFiles>>

ImportChat ==
    /\ job.pc = "chats"
    /\ \E fileName \in FileNames,
          isCurrent \in IF job.version = "2.0" THEN BOOLEAN ELSE {FALSE} :
          IF isCurrentChat(job, fileName, isCurrent)
          THEN \E imports \in PayloadLists :
                  /\ WithinIds(bookmarks, imports)
                  /\ ChatGroup(fileName, isCurrent, imports)
          ELSE ChatGroup(fileName, isCurrent, <<>>)

\* the chat loop is over: the character loop goes on
ImportCharacterDone ==
    /\ job.pc = "chats"
    /\ job.chatsLeft = 0
    /\ job.version = "3.0"
    /\ job' = [job EXCEPT !.pc = "chars", !.processedCharacters = @ + 1]
    /\ report' = NoReport
    /\ UNCHANGED <<bookmarks, context, chatMetadata, server,
                   bookmarkIndex, legacy, chatFiles, migrationCompleted, nextId>>

\* the loops are over: the result is reported and importBookmarkData calls
\* loadBookmarks()
ImportFinish ==
    /\ \/ job.pc = "chars" /\ job.charsLeft = 0
       \/ job.pc = "chats" /\ job.chatsLeft = 0 /\ job.version = "2.0"
    /\ report' = [NoReport EXCEPT
                    !.op = IF job.version = "2.0" THEN "v2" ELSE "v3",
                    !.kind = "success",
                    !.importedCount = job.totalImported,
                    !.processedChats = job.processedChats,
                    !.processedCharacters = job.processedCharacters,
                    !.notFoundCharacters = job.notFoundCharacters]
    /\ Commit(loadBookmarks(Mem))
    /\ job' = Idle
    /\ UNCHANGED <<legacy, chatFiles>>

\* the chat of job.character named job.fileName
Target == <<job.character, job.fileName>>

\* the response to fetch('/api/chats/get') arrives; with an ok response the
\* bookmarks of the group are merged into the fetched list and the chat is
\* sent to fetch('/api/chats/save')
Fetched(ok, imports) ==
    /\ job.pc = "fetch"
    /\ ok => Target \in Chats
    /\ IF ~ok
       THEN /\ job' = [job EXCEPT !.pc = "chats", !.pending = @ - 1]
            /\ UNCHANGED nextId
       ELSE LET existingBookmarks == server[Target]
                r == mergeRemote(existingBookmarks, imports, nextId)
            IN  /\ Issued(imports)
                /\ nextId' = r.nextId
                /\ job' = [job EXCEPT !.pc = "save",
                             !.mergedBookmarks = r.list,
                             !.chatContentToSave =
                                 chatContentToSave(chatFiles[Target]),
                             !.totalImported = @ + r.importedCount]
    /\ report' = NoReport
    /\ UNCHANGED <<bookmarks, context, chatMetadata, server,
                   bookmarkIndex, legacy, chatFiles, migrationCompleted>>

FetchResponse ==
    /\ job.pc = "fetch"
    /\ \/ Fetched(FALSE, <<>>)
       \/ /\ Target \in Chats
          /\ \E imports \in PayloadLists :
                /\ WithinIds(server[Target], imports)
                /\ Fetched(TRUE, imports)

\* the response to fetch('/api/chats/save') arrives: an ok response means the
\* file was written
Saved(ok) ==
    /\ job.pc = "save"
    /\ server' = IF ok
                 THEN [server EXCEPT ![Target] = job.mergedBookmarks]
                 ELSE server
    /\ chatFiles' = IF ok
                    THEN [chatFiles EXCEPT ![Target] = job.chatContentToSave]
                    ELSE chatFiles
    /\ IF job.version = "3.0" /\ ok
       THEN job' = [job EXCEPT !.pc = "verify"]
       ELSE job' = [job EXCEPT !.pc = "chats", !.processedChats = @ + 1,
                               !.pending = @ - 1,
                               !.mergedBookmarks = <<>>,
                               !.chatContentToSave = <<>>]
    /\ report' = NoReport
    /\ UNCHANGED <<bookmarks, context, chatMetadata, bookmarkIndex,
                   legacy, migrationCompleted, nextId>>

SaveResponse == \E ok \in BOOLEAN : Saved(ok)

\* fault: after the verifying read the chat is requested again
VerifyRetry ==
    /\ job.pc = "verify"
    /\ job' = [job EXCEPT !.pc = "fetch",
                          !.mergedBookmarks = <<>>,
                          !.chatContentToSave = <<>>]
    /\ report' = NoReport
    /\ UNCHANGED <<bookmarks, context, chatMetadata, server,
                   bookmarkIndex, legacy, chatFiles, migrationCompleted, nextId>>

\* the response to the verifying fetch('/api/chats/get') arrives: the counts
\* are compared and the outcome is logged
VerifyResponse ==
    /\ job.pc = "verify"
    /\ job' = [job EXCEPT !.pc = "chats", !.processedChats = @ + 1,
                          !.pending = @ - 1,
                          !.mergedBookmarks = <<>>,
                          !.chatContentToSave = <<>>]
    /\ report' = NoReport
    /\ UNCHANGED <<bookmarks, context, chatMetadata, server,
                   bookmarkIndex, legacy, chatFiles, migrationCompleted, nextId>>

\* ------------------------------------------------------------ collection
\* what getContext() yields when a bulk operation asks for the character
\* list: the context with context.characters, the context without the list,
\* or nothing
Hosts == {"ok", "noCharacters", "null"}

\* Object.keys(bookmarkIndex)
indexKeys(index) == {ck \in CharKeys : index[ck].present}

\* fault: every chat of the character is visited, indexed or not
allChats(index, characterIdStr) ==
    IF parseInt(characterIdStr) \in CharIds
    THEN ChatsOf(parseInt(characterIdStr)) ELSE {}

\* Object.entries(bookmarkIndex[characterIdStr]): the indexed chats
indexedChats(index, characterIdStr) ==
    {ch \in ChatIds : index[characterIdStr].chats[ch] # NoEntry}

\* the smallest key: integer-like keys are enumerated in ascending order
firstKey(keys) == CHOOSE ck \in keys : \A o \in keys : parseInt(ck) <= parseInt(o)

\* fault: no chat is taken for the active chat
isActiveChatNever(j, charIndex, chatId) == FALSE

\* charIndex === context.characterId && chatId === context.chatId
isActiveChat(j, charIndex, chatId) ==
    charIndex = j.characterId /\ chatId = j.chatId

\* the locals of collectAllBookmarksFromAllCharacters: pc "ckeys" is the head
\* of the character loop, "cchats" the head of the chat loop, "cfetch" awaits
\* the response to fetch('/api/chats/get'), "cname" the response to
\* fetch('/api/characters/chats')
CollectJob ==
    [pc |-> "ckeys", characterId |-> context.characterId,
     chatId |-> context.chatId, keysLeft |-> indexKeys(bookmarkIndex),
     character |-> UndefChar, chatsLeft |-> {}, fileName |-> "",
     chatBookmarks |-> <<>>, pending |-> 0,
     characterChatBookmarks |-> <<>>, allCharacterBookmarks |-> <<>>]

\* context.characterId || 'unknown' (UndefChar stands for 'unknown')
orUnknown(characterId) == IF characterId = 0 THEN UndefChar ELSE characterId

\* the single-character, single-chat structure around the in-memory list
Fallback ==
    <<[characterId |-> orUnknown(context.characterId),
       chats |-> <<[fileName |-> "current", bookmarks |-> bookmarks,
                    isCurrent |-> FALSE]>>]>>

Returned(result) ==
    [NoReport EXCEPT !.op = "collect", !.kind = "returned", !.result = result]
Thrown == [NoReport EXCEPT !.op = "collect", !.kind = "thrown"]

\* fault: an empty index yields the fallback structure
CollectStartFallback(host) ==
    /\ job.pc = "idle"
    /\ CASE host = "null" -> job' = job /\ report' = Thrown
         [] host = "noCharacters" -> job' = job /\ report' = Returned(Fallback)
         [] OTHER ->
              IF indexKeys(bookmarkIndex) = {}
              THEN job' = job /\ report' = Returned(Fallback)
              ELSE job' = CollectJob /\ report' = NoReport
    /\ UNCHANGED <<bookmarks, context, chatMetadata, server, chatFiles,
                   bookmarkIndex, legacy, migrationCompleted, nextId>>

\* collectAllBookmarksFromAllCharacters() is called.  Without a context the
\* guard's return reads context.characterId and throws, and so does the
\* catch block: the promise is rejected.
CollectStart(host) ==
    /\ job.pc = "idle"
    /\ CASE host = "null" -> job' = job /\ report' = Thrown
         [] host = "noCharacters" -> job' = job /\ report' = Returned(Fallback)
         [] OTHER ->
              IF indexKeys(bookmarkIndex) = {}
              THEN job' = job /\ report' = Returned(<<>>)
              ELSE job' = CollectJob /\ report' = NoReport
    /\ UNCHANGED <<bookmarks, context, chatMetadata, server, chatFiles,
                   bookmarkIndex, legacy, migrationCompleted, nextId>>

Collect == \E host \in Hosts : CollectStart(host)

\* the character loop takes the next key, or the loop is over and the result
\* is returned
CollectCharacter ==
    /\ job.pc = "ckeys"
    /\ IF job.keysLeft = {}
       THEN /\ report' = Returned(job.allCharacterBookmarks)
            /\ job' = Idle
       ELSE LET characterIdStr == firstKey(job.keysLeft)
                charIndex == parseInt(characterIdStr)
                left == job.keysLeft \ {characterIdStr}
            IN  /\ report' = NoReport
                /\ IF charIndex \notin CharIds
                   THEN job' = [job EXCEPT !.keysLeft = left]
                   ELSE job' = [job EXCEPT !.keysLeft = left,
                                  !.pc = "cchats",
                                  !.character = charIndex,
                                  !.chatsLeft =
                                      indexedChats(bookmarkIndex, characterIdStr),
                                  !.characterChatBookmarks = <<>>]
    /\ UNCHANGED <<bookmarks, context, chatMetadata, server, chatFiles,
                   bookmarkIndex, legacy, migrationCompleted, nextId>>

\* the chat loop takes the next indexed chat: the active chat is read from
\* memory, any other chat is requested; after the last chat the character is
\* put into the result when it has bookmarks
CollectChat ==
    /\ job.pc = "cchats"
    /\ IF job.chatsLeft = {}
       THEN job' = [job EXCEPT !.pc = "ckeys",
                      !.allCharacterBookmarks =
                          IF job.characterChatBookmarks # <<>>
                          THEN Append(@, [characterId |-> job.character,
                                          chats |-> job.characterChatBookmarks])
                          ELSE @]
       ELSE \E chatId \in job.chatsLeft :
               IF isActiveChat(job, job.character, chatId)
               THEN job' = [job EXCEPT !.chatsLeft = @ \ {chatId},
                              !.characterChatBookmarks =
                                  IF bookmarks # <<>>
                                  THEN Append(@, [fileName |-> chatId,
                                                  bookmarks |-> bookmarks,
                                                  isCurrent |-> TRUE])
                                  ELSE @]
               ELSE job' = [job EXCEPT !.chatsLeft = @ \ {chatId},
                              !.pc = "cfetch",
                              !.pending = @ + 1,
                              !.fileName = stripJsonl(chatId)]
    /\ report' = NoReport
    /\ UNCHANGED <<bookmarks, context, chatMetadata, server, chatFiles,
                   bookmarkIndex, legacy, migrationCompleted, nextId>>

\* the response to fetch('/api/chats/get') arrives: when bookmarks are found
\* under the reserved key, the chat list of the character is requested for
\* the name of the chat
CollectFetched(ok) ==
    /\ job.pc = "cfetch"
    /\ ok => Target \in Chats
    /\ IF ok /\ server[Target] # <<>>
       THEN job' = [job EXCEPT !.pc = "cname",
                      !.chatBookmarks = server[Target]]
       ELSE job' = [job EXCEPT !.pc = "cchats", !.pending = @ - 1]
    /\ report' = NoReport
    /\ UNCHANGED <<bookmarks, context, chatMetadata, server, chatFiles,
                   bookmarkIndex, legacy, migrationCompleted, nextId>>

CollectResponse == \E ok \in BOOLEAN : CollectFetched(ok)

\* the response to fetch('/api/characters/chats') arrives: with or without a
\* name, the bookmarks of the chat are put into the result
CollectNamed(ok) ==
    /\ job.pc = "cname"
    /\ job' = [job EXCEPT !.pc = "cchats",
                  !.pending = @ - 1,
                  !.chatBookmarks = <<>>,
                  !.characterChatBookmarks =
                      Append(@, [fileName |-> job.fileName,
                                 bookmarks |-> job.chatBookmarks,
                                 isCurrent |-> FALSE])]
    /\ report' = NoReport
    /\ UNCHANGED <<bookmarks, context, chatMetadata, server, chatFiles,
                   bookmarkIndex, legacy, migrationCompleted, nextId>>

CollectNameResponse == \E ok \in BOOLEAN : CollectNamed(ok)

\* ------------------------------------------------------------ bulk erase
\* the locals of deleteAllBookmarksFromAllCharacters: pc "confirm2" awaits
\* the second popup, "ekeys" is the head of the character loop, "echats" the
\* head of the chat loop, "efetch" / "esave" await the responses
EraseJob ==
    [pc |-> "confirm2", characterId |-> UndefChar, chatId |-> UndefChat,
     keysLeft |-> {}, character |-> UndefChar, chatsLeft |-> {},
     fileName |-> "", chatContentToSave |-> <<>>, pending |-> 0,
     deletedCharacters |-> 0, deletedChats |-> 0, totalErrors |-> 0]

Declined == [NoReport EXCEPT !.op = "erase", !.kind = "declined"]

\* fault: one confirmation is enough
EraseAskOnce(firstConfirm) ==
    /\ job.pc = "idle"
    /\ IF firstConfirm
       THEN /\ job' = [EraseJob EXCEPT !.pc = "ekeys",
                          !.characterId = context.characterId,
                          !.chatId = context.chatId,
                          !.keysLeft = indexKeys(bookmarkIndex)]
            /\ report' = NoReport
       ELSE /\ job' = Idle
            /\ report' = Declined
    /\ UNCHANGED <<bookmarks, context, chatMetadata, server, chatFiles,
                   bookmarkIndex, legacy, migrationCompleted, nextId>>

\* deleteAllBookmarksFromAllCharacters() is called and the first popup is
\* answered
EraseAsk(firstConfirm) ==
    /\ job.pc = "idle"
    /\ IF firstConfirm
       THEN /\ job' = EraseJob
            /\ report' = NoReport
       ELSE /\ job' = Idle
            /\ report' = Declined
    /\ UNCHANGED <<bookmarks, context, chatMetadata, server, chatFiles,
                   bookmarkIndex, legacy, migrationCompleted, nextId>>

Erase == \E firstConfirm \in BOOLEAN : EraseAsk(firstConfirm)

\* the second popup is answered; after two affirmations the context is taken
\* and the index is read
EraseConfirm(secondConfirm, host) ==
    /\ job.pc = "confirm2"
    /\ IF ~secondConfirm
       THEN /\ job' = Idle
            /\ report' = Declined
       ELSE IF host # "ok"
       THEN /\ job' = Idle
            /\ report' = [NoReport EXCEPT !.op = "erase", !.kind = "error"]
       ELSE /\ job' = [job EXCEPT !.pc = "ekeys",
                          !.characterId = context.characterId,
                          !.chatId = context.chatId,
                          !.keysLeft = indexKeys(bookmarkIndex)]
            /\ report' = NoReport
    /\ UNCHANGED <<bookmarks, context, chatMetadata, server, chatFiles,
                   bookmarkIndex, legacy, migrationCompleted, nextId>>

EraseConfirmed ==
    \E secondConfirm \in BOOLEAN, host \in Hosts :
        EraseConfirm(secondConfirm, host)

\* fault: the index is left as the loop left it
eraseFinishKeepIndex(m) == loadBookmarks(m)

\* extension_settings[pluginName].bookmarkIndex = {}; loadBookmarks()
eraseFinish(m) == loadBookmarks([m EXCEPT !.bookmarkIndex = EmptyIndex])

\* the character loop takes the next key of the index, or the loop is over:
\* the index is reset, the list is loaded again and the totals are reported
EraseCharacter ==
    /\ job.pc = "ekeys"
    /\ IF job.keysLeft = {}
       THEN /\ Commit(eraseFinish(Mem))
            /\ report' = [NoReport EXCEPT !.op = "erase",
                             !.kind = IF job.totalErrors = 0 THEN "success"
                                      ELSE "warning",
                             !.deletedCharacters = job.deletedCharacters,
                             !.deletedChats = job.deletedChats,
                             !.totalErrors = job.totalErrors]
            /\ job' = Idle
       ELSE LET characterIdStr == firstKey(job.keysLeft)
                charIndex == parseInt(characterIdStr)
                left == job.keysLeft \ {characterIdStr}
            IN  /\ report' = NoReport
                /\ IF charIndex \notin CharIds
                   THEN job' = [job EXCEPT !.keysLeft = left]
                   ELSE job' = [job EXCEPT !.keysLeft = left,
                                  !.pc = "echats",
                                  !.character = charIndex,
                                  !.chatsLeft =
                                      indexedChats(bookmarkIndex, characterIdStr)]
                /\ UNCHANGED <<bookmarks, context, chatMetadata, server,
                               bookmarkIndex, migrationCompleted, nextId>>
    /\ UNCHANGED <<legacy, chatFiles>>

\* the chat loop takes the next chat of the character: the active chat is
\* emptied in memory and saved, any other chat is requested
EraseChat ==
    /\ job.pc = "echats"
    /\ IF job.chatsLeft = {}
       THEN /\ job' = [job EXCEPT !.pc = "ekeys", !.deletedCharacters = @ + 1]
            /\ UNCHANGED <<bookmarks, context, chatMetadata, server,
                           bookmarkIndex, migrationCompleted, nextId>>
       ELSE \E chatId \in job.chatsLeft :
               IF isActiveChat(job, job.character, chatId)
               THEN /\ Commit(saveBookmarks(SetBookmarks(Mem, <<>>)))
                    /\ job' = [job EXCEPT !.chatsLeft = @ \ {chatId},
                                  !.deletedChats = @ + 1]
               ELSE /\ job' = [job EXCEPT !.chatsLeft = @ \ {chatId},
                                  !.pc = "efetch",
                                  !.pending = @ + 1,
                                  !.fileName = stripJsonl(chatId)]
                    /\ UNCHANGED <<bookmarks, context, chatMetadata, server,
                                   bookmarkIndex, migrationCompleted, nextId>>
    /\ report' = NoReport
    /\ UNCHANGED <<legacy, chatFiles>>

\* the response to fetch('/api/chats/get') arrives.  A response that is not
\* ok (or holds no chat) is an error; a chat without bookmarks is passed
\* over; a chat with bookmarks is sent back without the reserved key
EraseFetched(ok) ==
    /\ job.pc = "efetch"
    /\ ok => Target \in Chats
    /\ IF ~ok
       THEN job' = [job EXCEPT !.pc = "echats", !.pending = @ - 1,
                      !.totalErrors = @ + 1]
       ELSE IF server[Target] = <<>>
       THEN job' = [job EXCEPT !.pc = "echats", !.pending = @ - 1]
       ELSE job' = [job EXCEPT !.pc = "esave",
                      !.chatContentToSave =
                          chatContentToSave(chatFiles[Target])]
    /\ report' = NoReport
    /\ UNCHANGED <<bookmarks, context, chatMetadata, server, chatFiles,
                   bookmarkIndex, legacy, migrationCompleted, nextId>>

EraseResponse == \E ok \in BOOLEAN : EraseFetched(ok)

\* the response to fetch('/api/chats/save') arrives: an ok response means the
\* file was written
EraseSaved(ok) ==
    /\ job.pc = "esave"
    /\ IF ok
       THEN /\ server' = [server EXCEPT ![Target] = <<>>]
            /\ chatFiles' = [chatFiles EXCEPT ![Target] = job.chatContentToSave]
            /\ job' = [job EXCEPT !.pc = "echats", !.deletedChats = @ + 1,
                                  !.pending = @ - 1,
                                  !.chatContentToSave = <<>>]
       ELSE /\ job' = [job EXCEPT !.pc = "echats", !.totalErrors = @ + 1,
                                  !.pending = @ - 1,
                                  !.chatContentToSave = <<>>]
            /\ UNCHANGED <<server, chatFiles>>
    /\ report' = NoReport
    /\ UNCHANGED <<bookmarks, context, chatMetadata, bookmarkIndex,
                   legacy, migrationCompleted, nextId>>

EraseSaveResponse == \E ok \in BOOLEAN : EraseSaved(ok)

Next ==
    \/ Add
    \/ Edit
    \/ Delete
    \/ ChatChanged
    \/ Import
    \/ ImportCharacter
    \/ ImportChat
    \/ ImportCharacterDone
    \/ ImportFinish
    \/ FetchResponse
    \/ SaveResponse
    \/ VerifyResponse
    \/ Collect
    \/ CollectCharacter
    \/ CollectChat
    \/ CollectResponse
    \/ CollectNameResponse
    \/ Erase
    \/ EraseConfirmed
    \/ EraseCharacter
    \/ EraseChat
    \/ EraseResponse
    \/ EraseSaveResponse

Spec == Init /\ [][Next]_vars

\* the store alone
NextStore == Add \/ Edit \/ Delete \/ ChatChanged
SpecStore == Init /\ [][NextStore]_vars

\* the store while one chat stays open: the user adds up to MaxAdds bookmarks
\* and writes descriptions
EditDescriptions == {"", "d"}
AddMore == AddUpTo(MaxAdds)
EditMore == EditAmong(BookmarkIds(MaxAdds), EditDescriptions)
DeleteMore == DeleteAmong(BookmarkIds(MaxAdds))
NextEdit == AddMore \/ EditMore \/ DeleteMore
SpecEdit == Init /\ [][NextEdit]_vars

\* the import engine
NextImport ==
    \/ ChatSwitched
    \/ Import
    \/ ImportCharacter
    \/ ImportChat
    \/ ImportCharacterDone
    \/ ImportFinish
    \/ FetchResponse
    \/ SaveResponse
    \/ VerifyResponse
InitImport == Init /\ context \in ImportContexts
SpecImport == InitImport /\ [][NextImport]_vars

\* imports while chat c1 of character 0 stays open; chat c2 may be an old chat
\* whose header has no chat_metadata
FrameFiles ==
    {[k \in Chats |-> IF k \in old THEN FlatFile ELSE WrappedFile] :
        old \in {{}, {<<0, "c2">>}}}
InitFrame ==
    /\ \E files0 \in FrameFiles : InitWith(EmptyIndex, files0)
    /\ context = [characterId |-> 0, chatId |-> "c1", hasMetadata |-> TRUE]
NextFrame ==
    \/ Import
    \/ ImportCharacter
    \/ ImportChat
    \/ ImportCharacterDone
    \/ ImportFinish
    \/ FetchResponse
    \/ SaveResponse
    \/ VerifyResponse
SpecFrame == InitFrame /\ [][NextFrame]_vars

\* the index the settings hold when a character of an earlier session is gone
StaleIndex ==
    [EmptyIndex EXCEPT !["2"] =
        [present |-> TRUE, chats |-> [EmptyChats EXCEPT !["c1"] = 1]]]
InitBulk == \E index0 \in {EmptyIndex, StaleIndex} : InitWith(index0, WrappedFiles)

\* no user event arrives while a bulk operation is under way
Quiet == job.pc = "idle" /\ NextStore

\* the store and the collection
NextCollect ==
    \/ Quiet
    \/ Collect
    \/ CollectCharacter
    \/ CollectChat
    \/ CollectResponse
    \/ CollectNameResponse
SpecCollect == InitBulk /\ [][NextCollect]_vars

\* the store and the bulk erase
NextErase ==
    \/ Quiet
    \/ Erase
    \/ EraseConfirmed
    \/ EraseCharacter
    \/ EraseChat
    \/ EraseResponse
    \/ EraseSaveResponse
SpecErase == InitBulk /\ [][NextErase]_vars

\* the bulk erase while the user moves between chats: CHAT_CHANGED is handled
\* while a request of the erase is pending
EraseSwitched == job.pc \in {"efetch", "esave"} /\ ChatSwitched
NextEraseSwitch == NextErase \/ EraseSwitched
SpecEraseSwitch == Init /\ [][NextEraseSwitch]_vars

\* the bulk erase when chat c2 of character 0 may be an old chat whose header
\* has no chat_metadata
InitEraseFrame == \E files0 \in FrameFiles : InitWith(EmptyIndex, files0)
SpecEraseFrame == InitEraseFrame /\ [][NextErase]_vars

\* one v1 import into a chat that holds bookmarks of earlier sessions
StoredRecs ==
    {[id |-> i, messageId |-> mid, name |-> n, description |-> "",
      createdAt |-> FileTime] : i \in OldIds, mid \in 1..MaxMsg, n \in Names}
StoredLists ==
    {l \in UNION {[1..len -> StoredRecs] : len \in 0..Cardinality(OldIds)} :
        /\ Sorted(l)
        /\ \A i, j \in DOMAIN l : i < j => l[i].id > l[j].id}

\* initializeBookmarkManager() with chat c1 of character 0 open
InitStored ==
    /\ context = [characterId |-> 0, chatId |-> "c1", hasMetadata |-> TRUE]
    /\ legacy = [kind |-> "absent", list |-> <<>>]
    /\ job = Idle
    /\ report = NoReport
    /\ chatFiles = [k \in Chats |-> WrappedFile]
    /\ \E list \in StoredLists :
          LET m0 == [bookmarks |-> <<>>, context |-> context,
                     chatMetadata |-> list,
                     server |-> [k \in Chats |->
                                  IF k = <<0, "c1">> THEN list ELSE <<>>],
                     bookmarkIndex |-> EmptyIndex,
                     migrationCompleted |-> FALSE, nextId |-> 1]
              m2 == handleChatChanged(m0)
          IN  /\ bookmarks = m2.bookmarks
              /\ chatMetadata = m2.chatMetadata
              /\ server = m2.server
              /\ bookmarkIndex = m2.bookmarkIndex
              /\ migrationCompleted = m2.migrationCompleted
              /\ nextId = m2.nextId

\* the user imports one v1 file
ImportLegacyFile ==
    /\ report.op = "none"
    /\ \E importData \in {f \in Files : Detect(f) = "v1"},
          legacyBookmarks \in PayloadLists :
          OnLoad(importData, legacyBookmarks, 0)

SpecLegacy == InitStored /\ [][ImportLegacyFile]_vars

\* ------------------------------------------------- loading and migration
\* what localStorage can hold under 'st_bookmarks': nothing, a text that is
\* no JSON, JSON that is no array, an empty array, a list of bookmarks
LegacyKinds ==
    {[kind |-> "absent", list |-> <<>>],
     [kind |-> "unparsable", list |-> <<>>],
     [kind |-> "object", list |-> <<>>],
     [kind |-> "array", list |-> <<>>],
     [kind |-> "array", list |-> LegacyList],
     [kind |-> "array", list |-> <<LegacyList[2]>>]}

\* what the chats hold under the reserved key when this browser runs the
\* extension for the first time: nothing, a value that is no array, or a
\* bookmark stored from another browser
StoredRec == [id |-> FileId, messageId |-> 2, name |-> "Y", description |-> "",
              createdAt |-> FileTime]
LoadStores ==
    {[k \in Chats |-> <<>>],
     [k \in Chats |-> IF k = <<0, "c2">> THEN NotAnArray ELSE <<>>],
     [k \in Chats |-> IF k = <<0, "c1">> THEN <<StoredRec>> ELSE <<>>]}

\* the metadata the host holds for the chat of key
metadataAt(stored, key) == IF key \in Chats THEN stored[key] ELSE <<>>

\* initializeBookmarkManager() in such a browser
InitLoad ==
    /\ context \in Contexts
    /\ legacy \in LegacyKinds
    /\ job = Idle
    /\ report = NoReport
    /\ chatFiles = WrappedFiles
    /\ \E stored0 \in LoadStores :
          LET m0 == [bookmarks |-> <<>>, context |-> context,
                     chatMetadata |->
                         metadataAt(stored0, <<context.characterId,
                                               context.chatId>>),
                     server |-> stored0,
                     bookmarkIndex |-> EmptyIndex,
                     migrationCompleted |-> FALSE, nextId |-> 1]
              m2 == handleChatChanged(m0)
          IN  /\ bookmarks = m2.bookmarks
              /\ chatMetadata = m2.chatMetadata
              /\ server = m2.server
              /\ bookmarkIndex = m2.bookmarkIndex
              /\ migrationCompleted = m2.migrationCompleted
              /\ nextId = m2.nextId

\* what getContext() does when loadBookmarks() calls it
LoadHosts == {"ok", "null", "throws"}

\* loadBookmarks() when getContext() yields nothing or throws: the guard, or
\* the catch block, empties the list
loadBookmarksFailed(m) == [m EXCEPT !.bookmarks = <<>>]

Loaded(host) == [NoReport EXCEPT !.op = "load", !.kind = host]

\* the host emits CHAT_CHANGED for the chat that is open (the chat was
\* reloaded): handleChatChanged().  Without a context nothing but the list is
\* touched.
Reload(host) ==
    /\ ~Busy
    /\ LET opened == [Mem EXCEPT !.chatMetadata =
                         metadataAt(server, <<context.characterId,
                                              context.chatId>>)]
       IN  Commit(IF host = "ok" THEN handleChatChanged(opened)
                  ELSE loadBookmarksFailed(opened))
    /\ report' = Loaded(host)
    /\ UNCHANGED <<legacy, chatFiles, job>>

LoadAgain == \E host \in LoadHosts : Reload(host)

\* something else writes localStorage 'st_bookmarks' (an older version of the
\* extension in another tab, the user)
LegacyChanged ==
    /\ ~Busy
    /\ legacy' \in LegacyKinds \ {legacy}
    /\ report' = NoReport
    /\ UNCHANGED <<bookmarks, context, chatMetadata, server, chatFiles,
                   bookmarkIndex, migrationCompleted, nextId, job>>

NextLoad ==
    \/ Add
    \/ Edit
    \/ Delete
    \/ ChatChanged
    \/ LoadAgain
    \/ LegacyChanged
SpecLoad == InitLoad /\ [][NextLoad]_vars

\* export, erase and import in turn.  Chat c2 of character 0 holds one
\* bookmark and is indexed; every request is answered with success; the file
\* imported is the v3 export of that store: one character, one chat, one record
RoundStore == [k \in Chats |-> IF k = <<0, "c2">> THEN <<StoredRec>> ELSE <<>>]
RoundIndex ==
    [EmptyIndex EXCEPT !["0"] =
        [present |-> TRUE, chats |-> [EmptyChats EXCEPT !["c2"] = 1]]]
InitRound ==
    /\ context \in Contexts
    /\ legacy = [kind |-> "absent", list |-> <<>>]
    /\ job = Idle
    /\ report = NoReport
    /\ chatFiles = WrappedFiles
    /\ LET m0 == [bookmarks |-> <<>>, context |-> context,
                  chatMetadata |->
                      metadataAt(RoundStore, <<context.characterId,
                                               context.chatId>>),
                  server |-> RoundStore,
                  bookmarkIndex |-> RoundIndex,
                  migrationCompleted |-> FALSE, nextId |-> 1]
           m2 == handleChatChanged(m0)
       IN  /\ bookmarks = m2.bookmarks
           /\ chatMetadata = m2.chatMetadata
           /\ server = m2.server
           /\ bookmarkIndex = m2.bookmarkIndex
           /\ migrationCompleted = m2.migrationCompleted
           /\ nextId = m2.nextId
ExportFile ==
    [parsable |-> TRUE, version |-> "3.0", bookmarks |-> FALSE,
     chatBookmarks |-> FALSE, characterBookmarks |-> TRUE]
ExportedChat == "c2"
ExportedBookmarks == <<StoredRec>>
NextRound ==
    \/ CollectStart("ok")
    \/ CollectCharacter
    \/ CollectChat
    \/ CollectFetched(TRUE)
    \/ CollectNameResponse
    \/ EraseAsk(TRUE)
    \/ EraseConfirm(TRUE, "ok")
    \/ EraseCharacter
    \/ EraseChat
    \/ EraseFetched(TRUE)
    \/ EraseSaved(TRUE)
    \/ nextId <= MaxId /\ OnLoad(ExportFile, <<>>, 1)
    \/ V3Character(characters[0], 1)
    \/ ChatGroup(ExportedChat, FALSE,
                 IF isCurrentChat(job, ExportedChat, FALSE)
                 THEN ExportedBookmarks ELSE <<>>)
    \/ Fetched(TRUE, ExportedBookmarks)
    \/ Saved(TRUE)
    \/ VerifyResponse
    \/ ImportCharacterDone
    \/ ImportFinish
SpecRound == InitRound /\ [][NextRound]_vars

\* the three bulk operations, started one at a time in the store of
\* InitRound, with requests that succeed or fail.  A task that is executing
\* goes on until it awaits or returns, and every request is answered: each
\* loop step and each response is taken if it stays possible.  The start of
\* an operation and the answers to the two popups are up to the user.
NextLive ==
    \/ Import
    \/ ImportCharacter
    \/ ImportChat
    \/ ImportCharacterDone
    \/ ImportFinish
    \/ FetchResponse
    \/ SaveResponse
    \/ VerifyResponse
    \/ Collect
    \/ CollectCharacter
    \/ CollectChat
    \/ CollectResponse
    \/ CollectNameResponse
    \/ Erase
    \/ EraseConfirmed
    \/ EraseCharacter
    \/ EraseChat
    \/ EraseResponse
    \/ EraseSaveResponse
LiveFairness ==
    /\ WF_vars(ImportCharacter)
    /\ WF_vars(ImportChat)
    /\ WF_vars(ImportCharacterDone)
    /\ WF_vars(ImportFinish)
    /\ WF_vars(FetchResponse)
    /\ WF_vars(SaveResponse)
    /\ WF_vars(VerifyResponse)
    /\ WF_vars(CollectCharacter)
    /\ WF_vars(CollectChat)
    /\ WF_vars(CollectResponse)
    /\ WF_vars(CollectNameResponse)
    /\ WF_vars(EraseCharacter)
    /\ WF_vars(EraseChat)
    /\ WF_vars(EraseResponse)
    /\ WF_vars(EraseSaveResponse)
InitLive == InitRound /\ context \in ImportContexts
SpecLive == InitLive /\ [][NextLive]_vars /\ LiveFairness

\* ------------------------------------------------------------ properties
ActiveDefined == context.characterId # UndefChar /\ context.chatId # UndefChat

\* C1 (SpecStore): starting from an empty or sorted list, after every add,
\* edit and remove the in-memory list is sorted ascending by messageId.
C1_SortedAfterEveryCall == Sorted(bookmarks)

\* an added bookmark stands before a bookmark of a later message
C1_Witness ==
    \E i \in DOMAIN bookmarks :
        /\ i < Len(bookmarks)
        /\ bookmarks[i].id >= 1
        /\ bookmarks[i].messageId < bookmarks[i + 1].messageId

\* the index agrees with the in-memory list for the active chat
IndexAgrees ==
    LET entry == bookmarkIndex[toString(context.characterId)]
    IN  IF bookmarks # <<>>
        THEN entry.present /\ entry.chats[context.chatId] = Len(bookmarks)
        ELSE /\ entry.chats[context.chatId] = NoEntry
             /\ (\A ch \in ChatIds \ {context.chatId} :
                    entry.chats[ch] = NoEntry) => ~entry.present

\* C2 (SpecStore): after a save with a defined (characterId, chatId) - every
\* add, and every edit and remove that finds its bookmark - the index entry of
\* that chat holds the length of the in-memory list; with an empty list the
\* entry is absent, and so is the character key when no other chat of the
\* character is indexed.
C2_IndexAfterSave ==
    [][((Add \/ Edit \/ Delete) /\ ActiveDefined) => IndexAgrees']_vars

\* the only bookmark ever added has been removed again: the entry and the
\* character key are gone
C2_Witness ==
    /\ ActiveDefined
    /\ legacy.kind = "absent"
    /\ nextId = 2
    /\ bookmarks = <<>>
    /\ \A k \in Chats : server[k] = <<>>
    /\ \A ck \in CharKeys : ~bookmarkIndex[ck].present

C4_IndexCoversStore ==
    \A k \in Chats :
        server[k] # <<>> =>
            /\ bookmarkIndex[toString(k[1])].present
            /\ bookmarkIndex[toString(k[1])].chats[k[2]] = Len(server[k])

\* record i of payload p meets its (messageId, name) pair in list, or earlier
\* in p
DupBefore(list, p, i) ==
    \/ \E k \in DOMAIN list :
          list[k].messageId = p[i].messageId /\ list[k].name = p[i].name
    \/ \E j \in 1..(i - 1) :
          p[j].messageId = p[i].messageId /\ p[j].name = p[i].name

\* an unversioned file with a bookmarks array
V1File == [parsable |-> TRUE, version |-> "none", bookmarks |-> TRUE,
           chatBookmarks |-> FALSE, characterBookmarks |-> FALSE]

\* C5 (SpecLegacy): a v1 import into the current chat counts a record as
\* duplicate iff a record of the in-memory list, or an earlier record of the
\* payload, has the same messageId and the same name; every other record is
\* appended and counted as imported, so importedCount + duplicatedCount is the
\* payload size and the list grows by importedCount.
C5_LegacyImport ==
    [][(job.pc = "idle" /\ report'.op = "v1") =>
        \A p \in PayloadLists :
            OnLoad(V1File, p, 0) =>
                LET imported == {i \in DOMAIN p : ~DupBefore(bookmarks, p, i)}
                IN  /\ report'.importedCount = Cardinality(imported)
                    /\ report'.duplicatedCount = Len(p) - Cardinality(imported)
                    /\ Len(bookmarks') = Len(bookmarks) + Cardinality(imported)
                    /\ \A i \in imported : \E k \in DOMAIN bookmarks' :
                          /\ bookmarks'[k].messageId = p[i].messageId
                          /\ bookmarks'[k].name = p[i].name
                          /\ bookmarks'[k].id >= nextId]_vars

\* a v1 import into a chat that holds two bookmarks added one record and
\* skipped one
C5_Witness ==
    /\ report.op = "v1"
    /\ report.importedCount = 1
    /\ report.duplicatedCount = 1
    /\ Len(bookmarks) = 3

\* no record of list made with an id from fresh on shares its
\* (messageId, name) pair with another record of list
PairsOnce(list, fresh) ==
    \A i, j \in DOMAIN list :
        (i # j /\ list[i].id >= fresh) =>
            ~(list[i].messageId = list[j].messageId
              /\ list[i].name = list[j].name)

\* C6 (SpecImport): whatever the format and the destination, a merge adds no
\* record whose (messageId, name) pair is already in the destination, be it
\* an existing record or one merged earlier in the same pass.
C6_NoPairAddedTwice ==
    [][nextId' > nextId =>
        IF job.pc = "fetch"
        THEN PairsOnce(job'.mergedBookmarks, nextId)
        ELSE PairsOnce(bookmarks', nextId)]_vars

\* a payload that holds one pair twice was imported into an empty chat: one
\* record added, one skipped
C6_Witness ==
    /\ report.op = "v1"
    /\ report.importedCount = 1
    /\ report.duplicatedCount = 1
    /\ Len(bookmarks) = 1

\* C7 (SpecImport): every record an import adds, to the in-memory list or to
\* the list of a fetched chat, carries an id that no record of the destination
\* had and that differs from the id the record has in the file.
C7_FreshIds ==
    [][nextId' > nextId =>
        LET before == IF job.pc = "fetch" THEN server[Target] ELSE bookmarks
            after == IF job.pc = "fetch" THEN job'.mergedBookmarks
                     ELSE bookmarks'
        IN  \A r \in Range(after) \ Range(before) :
                /\ \A e \in Range(before) : e.id # r.id
                /\ \A q \in PayloadRecs :
                      (q.messageId = r.messageId /\ q.name = r.name)
                          => q.id # r.id]_vars

\* a record was merged into the fetched list of a chat that held two
\* bookmarks
C7_Witness ==
    /\ job.pc = "save"
    /\ Len(job.mergedBookmarks) = 3
    /\ \E i \in DOMAIN job.mergedBookmarks : job.mergedBookmarks[i].id = 1

\* C8 (SpecImport): a v2 / v3 import that no chat change has crossed merges a
\* group into the in-memory list only when the active chat is the chat of the
\* group's fileName under the group's character.
C8_OriginalChat ==
    [][(job.pc = "chats" /\ context.characterId = job.characterId
            /\ context.chatId = job.chatId) =>
        \A fileName \in FileNames, isCurrent \in BOOLEAN,
           imports \in PayloadLists :
            (ChatGroup(fileName, isCurrent, imports) /\ bookmarks' # bookmarks)
                => (context.characterId = job.character
                    /\ context.chatId = fileName)]_vars

\* the files the detection rejects
Rejected(f) ==
    \/ ~f.parsable
    \/ /\ ~(f.bookmarks /\ f.version # "2.0")
       /\ ~(f.version = "2.0" /\ f.chatBookmarks)
       /\ ~(f.version = "3.0" /\ f.characterBookmarks)

\* the three shapes as stated: unversioned with a bookmarks array, "2.0" with
\* chatBookmarks, "3.0" with characterBookmarks
StatedShape(f) ==
    /\ f.parsable
    /\ \/ f.bookmarks /\ f.version = "none"
       \/ f.version = "2.0" /\ f.chatBookmarks
       \/ f.version = "3.0" /\ f.characterBookmarks

\* an error is reported, nothing is changed, no task is started
NoEffect ==
    /\ report'.kind = "error"
    /\ UNCHANGED <<bookmarks, context, chatMetadata, server, bookmarkIndex,
                   migrationCompleted, nextId, job>>

\* C9 (SpecImport), amended: a file that cannot be parsed, or that has neither
\* a bookmarks array beside a version other than "2.0", nor version "2.0"
\* with a chatBookmarks array, nor version "3.0" with a characterBookmarks
\* array, is reported as an error and has no effect: list, metadata, index and
\* every chat file are unchanged and no request is issued.
C9_RejectedNoEffect ==
    [][job.pc = "idle" =>
        \A f \in Files : (Rejected(f) /\ OnLoad(f, <<>>, 0)) => NoEffect]_vars

\* an error was reported while a chat with bookmarks is open
C9_Witness ==
    /\ report.op = "import"
    /\ report.kind = "error"
    /\ context.characterId = 0
    /\ bookmarks # <<>>

\* C9 as stated: every file that has none of the three stated shapes is
\* reported as an error and has no effect.
C9_AsStated ==
    [][job.pc = "idle" =>
        \A f \in Files, p \in PayloadLists :
            (~StatedShape(f) /\ OnLoad(f, p, 0)) => NoEffect]_vars

\* C10 (SpecImport): in a v3 import a group whose characterName no loaded
\* character bears is put on the not-found list and skipped, the store
\* untouched and the loop going on with the next group; a group whose
\* character is found enters its chat loop with all its chats, whatever was
\* skipped before; the chat loop is left only when no chat is left, and the
\* import ends only when no group is left.
C10_NotFoundSkipped ==
    [][/\ (job.pc = "chars" /\ job.charsLeft > 0) =>
            \A characterName \in CharacterNames, nChats \in 0..MaxChats :
                V3Character(characterName, nChats) =>
                    IF \A c \in CharIds : characters[c] # characterName
                    THEN /\ job' = [job EXCEPT
                                !.notFoundCharacters = Append(@, characterName),
                                !.charsLeft = @ - 1]
                         /\ UNCHANGED <<bookmarks, chatMetadata, server,
                                        bookmarkIndex, nextId>>
                    ELSE /\ job'.pc = "chats"
                         /\ job'.chatsLeft = nChats
                         /\ job'.charsLeft = job.charsLeft - 1
                         /\ job'.notFoundCharacters = job.notFoundCharacters
       /\ (job.pc = "chats" /\ job'.pc \in {"chars", "idle"})
            => job.chatsLeft = 0
       /\ (job.pc # "idle" /\ job'.pc = "idle") => job.charsLeft = 0]_vars

\* after a group was skipped, a chat of a later group has been written
C10_Witness ==
    /\ job.pc = "verify"
    /\ job.notFoundCharacters = <<"Z">>
    /\ job.charsLeft = 0

\* C11 (SpecFrame): the chat an import sends back to a remote chat is the
\* chat it fetched but for the reserved key: the same messages in the same
\* order, the same fields of element 0, the same other keys of the metadata;
\* and a write changes the file of that chat alone.
C11_OnlyReservedKey ==
    [][/\ (job.pc = "fetch" /\ job'.pc = "save")
            => job'.chatContentToSave = chatFiles[Target]
       /\ job.pc = "save"
            => /\ chatFiles'[Target] \in {chatFiles[Target],
                                          job.chatContentToSave}
               /\ \A k \in Chats \ {Target} :
                      chatFiles'[k] = chatFiles[k]]_vars

\* C12 (SpecImport): every write of a remote chat by a v2 / v3 import is
\* followed by a re-read of that chat, and a write that failed is not counted
\* as a processed chat: an error is reported for it.
C12_WriteVerified ==
    [][job.pc = "save" =>
        /\ Saved(TRUE) => job'.pc = "verify"
        /\ Saved(FALSE) => /\ job'.processedChats = job.processedChats
                           /\ report'.kind = "error"]_vars

\* C13 (SpecImport): when an import of any format has completed, the
\* in-memory list is the list stored under the reserved key of the active
\* chat's metadata: the same records in the same order.
C13_ListIsMetadata ==
    report.op \in {"v1", "v2", "v3"} => bookmarks = chatMetadata

\* a v3 import that added a record to the open chat has completed
C13_Witness ==
    /\ report.op = "v3"
    /\ report.importedCount = 1
    /\ \E i \in DOMAIN bookmarks : bookmarks[i].id = 1

CollectStep ==
    \/ job.pc \in {"ckeys", "cchats", "cfetch", "cname"}
    \/ job'.pc = "ckeys"
    \/ report'.op = "collect"

\* C15 (SpecCollect): a collection requests the data of a chat only when the
\* (character, chat) pair is in the index and is not the active chat; when the
\* chat loop takes the active chat it takes the in-memory list and requests
\* nothing; no step of a collection changes the in-memory list, the metadata,
\* a chat file or the index.
C15_OnlyIndexedRemoteChats ==
    [][CollectStep =>
        /\ UNCHANGED <<bookmarks, chatMetadata, server, chatFiles,
                       bookmarkIndex>>
        /\ (job.pc = "cchats" /\ job'.pc = "cfetch") =>
              /\ job'.character \in CharIds
              /\ bookmarkIndex[toString(job'.character)]
                    .chats[job'.fileName] # NoEntry
              /\ <<job'.character, job'.fileName>>
                    # <<context.characterId, context.chatId>>
        /\ (/\ job.pc = "cchats"
            /\ job.character = context.characterId
            /\ context.chatId \in job.chatsLeft
            /\ job'.chatsLeft = job.chatsLeft \ {context.chatId}) =>
              /\ job'.pc = "cchats"
              /\ job'.characterChatBookmarks =
                    IF bookmarks = <<>> THEN job.characterChatBookmarks
                    ELSE Append(job.characterChatBookmarks,
                                [fileName |-> context.chatId,
                                 bookmarks |-> bookmarks,
                                 isCurrent |-> TRUE])]_vars

\* the active chat has been taken from memory and another chat of the same
\* character is being requested
C15_Witness ==
    /\ job.pc = "cfetch"
    /\ job.characterChatBookmarks # <<>>
    /\ job.characterChatBookmarks[1].isCurrent
    /\ job.characterChatBookmarks[1].bookmarks = bookmarks

\* C16 (SpecCollect): collectAll() never throws: whatever getContext()
\* yields a result is returned, and without a context or without the
\* character list the result is the active chat's in-memory list wrapped in
\* one character with one chat.
C16_NeverThrows ==
    [][job.pc = "idle" =>
        \A host \in Hosts :
            CollectStart(host) =>
                /\ report'.kind = "returned"
                /\ host # "ok" =>
                      /\ Len(report'.result) = 1
                      /\ Len(report'.result[1].chats) = 1
                      /\ report'.result[1].chats[1].bookmarks = bookmarks]_vars

ErasePcs == {"ekeys", "echats", "efetch", "esave"}

\* C17 (SpecErase): an erase that has passed both confirmations and taken the
\* context ends with an index without any entry, however many requests
\* failed; its error count goes up by one exactly on a failed fetch and on a
\* failed write, and the count reported at the end is that count.
C17_IndexEmptyErrorsCounted ==
    [][job.pc \in ErasePcs =>
        IF job'.pc = "idle"
        THEN /\ bookmarkIndex' = EmptyIndex
             /\ report'.op = "erase"
             /\ report'.totalErrors = job.totalErrors
        ELSE job'.totalErrors =
                IF EraseFetched(FALSE) \/ EraseSaved(FALSE)
                THEN job.totalErrors + 1 ELSE job.totalErrors]_vars

\* the index held the active chat and one other chat; the active chat was
\* cleared, the write of the other chat failed: one error, empty index, the
\* other chat still holds its bookmarks
C17_Witness ==
    /\ report.op = "erase"
    /\ report.totalErrors = 1
    /\ report.deletedChats = 1
    /\ report.deletedCharacters = 1
    /\ bookmarkIndex = EmptyIndex
    /\ ActiveDefined
    /\ bookmarks = <<>>
    /\ \E k \in Chats : server[k] # <<>>

\* nothing that holds bookmarks has changed
NoErasure ==
    UNCHANGED <<bookmarks, chatMetadata, server, chatFiles, bookmarkIndex>>

\* C18 (SpecErase): the erase changes state only after two affirmations: the
\* answer to the first popup changes nothing and, when affirmative, leads to
\* the second popup; a declined second popup changes nothing and ends the
\* operation; the loops are entered from the second popup alone, and no
\* request is pending before that.
C18_TwoConfirmations ==
    [][/\ job.pc = "idle" =>
            \A firstConfirm \in BOOLEAN :
                EraseAsk(firstConfirm) =>
                    /\ NoErasure
                    /\ job'.pc = IF firstConfirm THEN "confirm2" ELSE "idle"
       /\ job.pc = "confirm2" =>
            /\ NoErasure
            /\ \A host \in Hosts :
                  EraseConfirm(FALSE, host) => job'.pc = "idle"
       /\ (job'.pc \in ErasePcs /\ job.pc \notin ErasePcs)
            => (job.pc = "confirm2" /\ job'.pc = "ekeys")]_vars

\* the erase was declined while the index and the open chat hold bookmarks
C18_Witness ==
    /\ report.op = "erase"
    /\ report.kind = "declined"
    /\ bookmarks # <<>>
    /\ bookmarkIndex # EmptyIndex
    /\ \E k \in Chats : k # <<context.characterId, context.chatId>>
                           /\ server[k] # <<>>

\* C19 (SpecErase): when the character loop of the erase meets an index key
\* whose character is not loaded, the error count goes up by one and the loop
\* goes on.
C19_UnresolvedCounted ==
    [][(job.pc = "ekeys" /\ job.keysLeft = {"2"}) =>
        /\ job'.pc = "ekeys"
        /\ job'.keysLeft = {}
        /\ job'.totalErrors = job.totalErrors + 1]_vars

\* C20 (SpecErase): with no user event during the erase, when the chat loop
\* takes the active chat the in-memory list and the metadata list become
\* empty, the chat is counted once as cleared and nothing is requested for
\* it; no request ever goes out for the active chat; and at completion the
\* in-memory list and the metadata list of a defined active chat are empty.
C20_ActiveChatCleared ==
    [][/\ (/\ job.pc = "echats"
           /\ job.character = context.characterId
           /\ context.chatId \in job.chatsLeft
           /\ job'.chatsLeft = job.chatsLeft \ {context.chatId}) =>
            /\ bookmarks' = <<>>
            /\ chatMetadata' = <<>>
            /\ job'.deletedChats = job.deletedChats + 1
            /\ job'.pc = "echats"
            /\ UNCHANGED chatFiles
       /\ (job.pc = "echats" /\ job'.pc = "efetch") =>
            <<job'.character, job'.fileName>>
                # <<context.characterId, context.chatId>>
       /\ (job.pc = "ekeys" /\ job'.pc = "idle" /\ ActiveDefined) =>
            /\ bookmarks' = <<>>
            /\ chatMetadata' = <<>>]_vars

\* the active chat has been cleared and counted; the other chat of its
\* character is being requested
C20_Witness ==
    /\ job.pc = "efetch"
    /\ job.character = context.characterId
    /\ job.fileName # context.chatId
    /\ job.deletedChats = 1
    /\ bookmarks = <<>>
    /\ server[<<context.characterId, context.chatId>>] = <<>>
    /\ bookmarkIndex[toString(context.characterId)].chats[context.chatId]
          = NoEntry

\* C21 (SpecEraseFrame): the chat the erase sends back to a remote chat is
\* the chat it fetched but for the reserved key: the same messages, the same
\* fields of element 0, the same other keys of the metadata; a fetched chat
\* without bookmarks under the reserved key is not sent back and touches no
\* counter; a write that succeeds removes the key from that chat alone and
\* counts one cleared chat, a write that fails counts one error and changes
\* no chat.
C21_EraseOnlyReservedKey ==
    [][/\ (job.pc = "efetch" /\ job'.pc = "esave") =>
            /\ server[Target] # <<>>
            /\ job'.chatContentToSave = chatFiles[Target]
       /\ (job.pc = "efetch" /\ EraseFetched(TRUE) /\ server[Target] = <<>>) =>
            /\ job'.pc = "echats"
            /\ job'.deletedChats = job.deletedChats
            /\ job'.totalErrors = job.totalErrors
       /\ job.pc = "esave" =>
            /\ EraseSaved(TRUE) =>
                  /\ server' = [server EXCEPT ![Target] = <<>>]
                  /\ chatFiles' = [chatFiles EXCEPT
                                      ![Target] = job.chatContentToSave]
                  /\ job'.deletedChats = job.deletedChats + 1
                  /\ job'.totalErrors = job.totalErrors
            /\ EraseSaved(FALSE) =>
                  /\ UNCHANGED <<server, chatFiles>>
                  /\ job'.deletedChats = job.deletedChats
                  /\ job'.totalErrors = job.totalErrors + 1]_vars

\* a call of load(): the host opened another chat (the one step that changes
\* the context), or reloaded the open one
LoadStep == context' # context \/ report'.op = "load"

\* the key of the chat that is open after the step
OpenedKey == <<context'.characterId, context'.chatId>>

\* the step put the legacy list into the open chat's metadata
CopyMade ==
    /\ legacy.list # <<>>
    /\ chatMetadata' = legacy.list
    /\ metadataAt(server, OpenedKey) # legacy.list

\* C22 (SpecLoad): the migration flag, once set, stays set; a load() that
\* copies the legacy list into a chat's metadata starts with the flag unset
\* and ends with the flag set, so there is at most one; and every load() with
\* the flag set, in whatever chat and whatever the legacy data has become,
\* leaves every stored chat as it is and the metadata as the host holds it.
C22_MigratesOnce ==
    [][/\ migrationCompleted => migrationCompleted'
       /\ (LoadStep /\ CopyMade) => (~migrationCompleted /\ migrationCompleted')
       /\ (LoadStep /\ migrationCompleted) =>
            /\ server' = server
            /\ chatMetadata' = metadataAt(server, OpenedKey)]_vars

\* the legacy list was copied into one chat and then changed; a later load()
\* in a chat without bookmarks copied nothing
C22_Witness ==
    /\ report.op = "load"
    /\ report.kind = "ok"
    /\ migrationCompleted
    /\ ActiveDefined
    /\ chatMetadata = <<>>
    /\ legacy.list = <<LegacyList[2]>>
    /\ \E k \in Chats : server[k] = LegacyList

\* load() found a context
WithContext == report'.kind \notin {"null", "throws"}

\* C23 (SpecLoad): a load() that starts with the flag unset, a non-empty
\* legacy array and no bookmarks in the metadata of the chat that is open
\* ends with the in-memory list and the metadata equal to the legacy array
\* and with the flag set; the legacy data is not touched by it, and no later
\* change of the list or of the legacy data reaches the other; a load() with
\* the flag set copies nothing.
C23_MigrationCopies ==
    [][/\ (/\ LoadStep
           /\ WithContext
           /\ ~migrationCompleted
           /\ legacy.kind = "array"
           /\ legacy.list # <<>>
           /\ context'.hasMetadata
           /\ noBookmarks(metadataAt(server, OpenedKey))) =>
            /\ bookmarks' = legacy.list
            /\ chatMetadata' = legacy.list
            /\ migrationCompleted'
            /\ legacy' = legacy
       /\ legacy' # legacy => UNCHANGED <<bookmarks, chatMetadata, server>>
       /\ (LoadStep /\ migrationCompleted) => ~CopyMade]_vars

\* the legacy array was copied into the open chat and changed afterwards; the
\* chat has been loaded a second time and still holds the array as it was
C23_Witness ==
    /\ report.op = "load"
    /\ report.kind = "ok"
    /\ migrationCompleted
    /\ ActiveDefined
    /\ bookmarks = LegacyList
    /\ chatMetadata = LegacyList
    /\ server[<<context.characterId, context.chatId>>] = LegacyList
    /\ legacy.list = <<LegacyList[2]>>

\* C24 (SpecLoad): a load() that finds a non-empty bookmark list in the
\* metadata of the chat that is open leaves that list as it is, whatever the
\* flag and the legacy data; and no step of the extension (load, add, edit,
\* remove, chat change) changes the legacy data.
C24_NeverOverwrites ==
    [][/\ (/\ LoadStep
           /\ context'.hasMetadata
           /\ ~noBookmarks(metadataAt(server, OpenedKey))) =>
            /\ chatMetadata' = metadataAt(server, OpenedKey)
            /\ server' = server
       /\ legacy' # legacy => LegacyChanged]_vars

\* a legacy array is at hand and no chat holds it; the open chat, which holds
\* a bookmark the user added, has been loaded: the flag is set, the bookmark
\* is still there
C24_Witness ==
    /\ report.op = "load"
    /\ report.kind = "ok"
    /\ migrationCompleted
    /\ legacy.list = LegacyList
    /\ ActiveDefined
    /\ Len(chatMetadata) = 1
    /\ chatMetadata[1].id = 1
    /\ bookmarks = chatMetadata
    /\ \A k \in Chats : server[k] # LegacyList

\* C25 (SpecLoad): every load() that runs the migrator with the flag unset
\* (a context with metadata is at hand) ends with the flag set, whatever the
\* legacy data is and whether or not a copy was made.
C25_FlagAlwaysSet ==
    [][(/\ LoadStep
        /\ WithContext
        /\ context'.hasMetadata
        /\ ~migrationCompleted) => migrationCompleted']_vars

\* C26 (SpecStore): an add, edit or remove made while characterId or chatId
\* is undefined, or while no metadata is at hand, stores nothing: the
\* metadata, every stored chat and the index are left as they were.
C26_SaveNoOpWithoutKey ==
    [][((Add \/ Edit \/ Delete) /\ ~ActiveDefined) =>
        UNCHANGED <<chatMetadata, server, bookmarkIndex>>]_vars

\* C27 (SpecLoad): every load() returns, and when it has returned the
\* in-memory list is the array the metadata of the open chat holds under the
\* reserved key, or the empty list when getContext() yielded nothing or
\* threw, when there is no metadata, and when the key is missing or holds
\* something that is no array.
C27_LoadFailsSoft ==
    [][LoadStep =>
        bookmarks' = IF /\ WithContext
                        /\ context'.hasMetadata
                        /\ isArray(chatMetadata')
                     THEN chatMetadata' ELSE <<>>]_vars

\* a chat whose reserved key holds something that is no array was loaded:
\* the list is empty
C27_Witness ==
    /\ report.op = "load"
    /\ report.kind = "ok"
    /\ context.hasMetadata
    /\ chatMetadata = NotAnArray
    /\ bookmarks = <<>>

\* C28 (SpecEdit): an edit of an id that is in the list leaves the list as
\* long as it was, every record in its place with its id, messageId and
\* createdAt, gives the record of that id the new name and description and
\* leaves every other record as it was; an edit of an id that is not in the
\* list changes neither the list nor the metadata, the stored chats or the
\* index.
C28_EditChangesOnlyOne ==
    [][\A bookmarkId \in BookmarkIds(MaxAdds), name \in Names,
          description \in EditDescriptions :
          EditOf(bookmarkId, name, description) =>
              IF \E k \in DOMAIN bookmarks : bookmarks[k].id = bookmarkId
              THEN /\ Len(bookmarks') = Len(bookmarks)
                   /\ \A k \in DOMAIN bookmarks :
                         /\ bookmarks'[k].id = bookmarks[k].id
                         /\ bookmarks'[k].messageId = bookmarks[k].messageId
                         /\ bookmarks'[k].createdAt = bookmarks[k].createdAt
                         /\ IF bookmarks[k].id = bookmarkId
                            THEN /\ bookmarks'[k].name = name
                                 /\ bookmarks'[k].description = description
                            ELSE bookmarks'[k] = bookmarks[k]
              ELSE UNCHANGED <<bookmarks, chatMetadata, server,
                               bookmarkIndex>>]_vars

\* of three bookmarks the migrated one in the middle has been given a
\* description; it kept its place and its createdAt
C28_Witness ==
    /\ Len(bookmarks) = 3
    /\ bookmarks[2].id \in OldIds
    /\ bookmarks[2].description = "d"
    /\ bookmarks[2].createdAt = FileTime
    /\ bookmarks[1].description = ""
    /\ bookmarks[3].description = ""
    /\ chatMetadata = bookmarks

\* list without the records of the id bookmarkId
Without(list, bookmarkId) == SelectSeq(list, LAMBDA r : r.id # bookmarkId)

\* C29 (SpecEdit): a removal of an id that is in the list takes out the
\* record of that id and nothing else: the list is one shorter and holds the
\* other records in the order they had; a removal of an id that is not in
\* the list changes neither the list nor the metadata, the stored chats or
\* the index.
C29_RemoveTakesOnlyOne ==
    [][\A bookmarkId \in BookmarkIds(MaxAdds) :
          DeleteOf(bookmarkId) =>
              IF \E k \in DOMAIN bookmarks : bookmarks[k].id = bookmarkId
              THEN /\ Len(bookmarks') = Len(bookmarks) - 1
                   /\ bookmarks' = Without(bookmarks, bookmarkId)
              ELSE UNCHANGED <<bookmarks, chatMetadata, server,
                               bookmarkIndex>>]_vars

\* of four bookmarks the second one, the first the user added, has been
\* removed: the three others stand as they stood
C29_Witness ==
    /\ nextId = 3
    /\ Len(bookmarks) = 3
    /\ bookmarks[1].id = -1
    /\ bookmarks[2].id = -2
    /\ bookmarks[3].id = 2
    /\ chatMetadata = bookmarks

\* C30 (SpecEdit): every add makes the list one longer: the records it held
\* are kept in their order and one record is new, with the messageId and the
\* name given and an id no record of the list had, also when the list holds
\* a bookmark of the same message, or of the same message and name.
C30_AddAlwaysAppends ==
    [][\A messageId \in 1..MaxMsg, name \in Names, now \in Times :
          AddOf(messageId, name, "", now) =>
              /\ Len(bookmarks') = Len(bookmarks) + 1
              /\ \A k \in DOMAIN bookmarks : bookmarks[k].id # nextId
              /\ \E k \in DOMAIN bookmarks' :
                    /\ bookmarks'[k] =
                          [id |-> nextId, messageId |-> messageId,
                           name |-> name, description |-> "",
                           createdAt |-> now]
                    /\ Splice(bookmarks', k) = bookmarks]_vars

\* the user bookmarked one message twice under one name: two records that
\* differ in their ids
C30_Witness ==
    \E i, j \in DOMAIN bookmarks :
        /\ bookmarks[i].id = 1
        /\ bookmarks[j].id = 2
        /\ bookmarks[i].messageId = bookmarks[j].messageId
        /\ bookmarks[i].name = bookmarks[j].name

\* C31 (SpecStore): when the host opens another chat (or closes the chat),
\* the in-memory list becomes the list found under the reserved key of the
\* chat that is now open, the empty list when there is none or no metadata:
\* nothing of the list held before is kept.  The list found is the one the
\* host stores for that chat, or the legacy list on the load that migrates
\* into a chat without bookmarks.  The stored list of every other chat and
\* the index entry of the chat left are as they were.
C31_ListReplacedOnChatChange ==
    [][context' # context =>
        /\ bookmarks' = IF context'.hasMetadata THEN chatMetadata' ELSE <<>>
        /\ \/ chatMetadata' = metadataAt(server, OpenedKey)
           \/ /\ ~migrationCompleted
              /\ metadataAt(server, OpenedKey) = <<>>
              /\ chatMetadata' = legacy.list
        /\ \A k \in Chats \ {OpenedKey} : server'[k] = server[k]
        /\ ActiveDefined =>
              bookmarkIndex'[toString(context.characterId)].chats[context.chatId]
                = bookmarkIndex[toString(context.characterId)].chats[context.chatId]]_vars

\* the open chat holds the bookmark the user added to it, another chat holds
\* the two migrated ones, both are indexed: the lists have nothing in common
C31_Witness ==
    /\ ActiveDefined
    /\ Len(bookmarks) = 1
    /\ bookmarks[1].id = 1
    /\ bookmarks = server[<<context.characterId, context.chatId>>]
    /\ bookmarkIndex[toString(context.characterId)].chats[context.chatId] = 1
    /\ \E k \in Chats :
          /\ server[k] = LegacyList
          /\ bookmarkIndex[toString(k[1])].chats[k[2]] = 2

\* the program points at which a bulk operation awaits a response
AwaitPoints == {"fetch", "save", "verify", "cfetch", "cname", "efetch", "esave"}

C33_DataStaysWithChat ==
    [][job.pc = "chats" =>
        \A fileName \in FileNames, imports \in PayloadLists :
            (/\ ChatGroup(fileName, FALSE, imports)
             /\ (bookmarks' # bookmarks \/ chatMetadata' # chatMetadata))
                => (context.characterId = job.character
                    /\ context.chatId = fileName)]_vars

\* C34: whenever no operation is in progress and the character and the chat
\* of the context are defined, the index agrees with the in-memory list for
\* the active chat: the count of the entry is the length of a non-empty list,
\* and an empty list has no entry
C34_IndexAgreesWhenIdle ==
    (job.pc = "idle" /\ ActiveDefined) => IndexAgrees

\* a record without its id
SansId(r) ==
    [messageId |-> r.messageId, name |-> r.name,
     description |-> r.description, createdAt |-> r.createdAt]
SansIds(list) == [i \in DOMAIN list |-> SansId(list[i])]

\* the characters, chats and bookmarks of a result of collectAll, ids aside
Holdings(result) ==
    UNION {{<<result[i].characterId, result[i].chats[j].fileName,
              SansIds(result[i].chats[j].bookmarks)>> :
                j \in DOMAIN result[i].chats} : i \in DOMAIN result}

\* what the first collectAll returns in the store of SpecRound
FirstHoldings == {<<0, ExportedChat, SansIds(ExportedBookmarks)>>}

\* the list the chat of key holds: the in-memory list for the chat that is
\* open, the stored list for any other chat
held(key) ==
    IF key = <<context.characterId, context.chatId>> THEN bookmarks
    ELSE server[key]

\* every chat holds what it held when the export was taken, ids aside
Restored == \A key \in Chats : SansIds(held(key)) = SansIds(RoundStore[key])

\* C35: export, erase and import again is a round trip: whenever the chats
\* hold what was exported (at first, and again once the export has been
\* imported after an erase), collectAll returns the characters, chats and
\* bookmarks the first collectAll returned, ids aside
C35_RoundTrip ==
    [][(report'.op = "collect" /\ report'.kind = "returned" /\ Restored)
          => Holdings(report'.result) = FirstHoldings]_vars

\* the import of a payload list into the open chat (v1, or the current-chat
\* group of a v2 / v3 file), followed by the import of the same list
ImportedTwice(imports) ==
    LET first == importLegacyBookmarks(Mem, imports)
        second == importLegacyBookmarks(first.m, imports)
    IN  /\ second.importedCount = 0
        /\ second.duplicatedCount = Len(imports)
        /\ second.m = first.m

\* the merge of a payload list into the stored list of a remote chat and its
\* write-back, followed by the merge of the same list into what was written
MergedTwice(key, imports) ==
    LET first == mergeRemote(server[key], imports, nextId)
        second == mergeRemote(first.list, imports, first.nextId)
    IN  /\ second.importedCount = 0
        /\ second.list = first.list
        /\ second.nextId = first.nextId

idsIn(list) == {list[i].id : i \in DOMAIN list} \cap (1..MaxId)
PersistedIds(mem, stored) ==
    idsIn(mem) \cup UNION {idsIn(stored[key]) : key \in Chats}

\* C37: the totals of a v2 / v3 import are truthful: a chat whose save
\* request failed is not counted as processed, and the import reports no
\* more imported records than records with a fresh id are held by the chats
C37_TotalsTruthful ==
    [][/\ (job.pc = "save" /\ job'.pc = "chats"
            /\ server'[Target] # job.mergedBookmarks)
              => job'.processedChats = job.processedChats
       /\ report'.op \in {"v2", "v3"}
              => report'.importedCount
                    <= Cardinality(PersistedIds(bookmarks', server'))]_vars

\* C38: every list an import writes is sorted ascending by messageId: the
\* in-memory list and the metadata after a v1 import and after the merge of
\* a current-chat group, the list merged for a remote chat and the list its
\* save puts into the file
C38_ImportWritesSorted ==
    [][/\ report'.op = "v1" => Sorted(bookmarks') /\ Sorted(chatMetadata')
       /\ (job.pc = "chats" /\ job'.pc = "chats")
              => Sorted(bookmarks') /\ Sorted(chatMetadata')
       /\ (job.pc = "fetch" /\ job'.pc = "save")
              => Sorted(job'.mergedBookmarks)
       /\ (job.pc = "save" /\ Target \in Chats)
              => Sorted(server'[Target])]_vars

\* a remote chat held two bookmarks, on the messages 1 and 2; the record an
\* import pushed behind them has been written between them
C38_Witness ==
    /\ job.pc \in {"verify", "chats"}
    /\ job.fileName = "c2"
    /\ Len(server[<<0, "c2">>]) = 3
    /\ server[<<0, "c2">>][2].id = 1
    /\ server[<<0, "c2">>][2].messageId < server[<<0, "c2">>][3].messageId

\* C39: a mutation that cannot be persisted is not kept: while the context
\* has no metadata to write to, add, edit and remove leave the in-memory
\* list as it was
C39_UnsavedNotKept ==
    [][(~context.hasMetadata /\ context' = context)
          => bookmarks' = bookmarks]_vars

\* the final report of a bulk operation
FinalReport ==
    /\ job.pc = "idle"
    /\ \/ report.op \in {"v2", "v3"} /\ report.kind = "success"
       \/ report.op = "collect" /\ report.kind = "returned"
       \/ report.op = "erase" /\ report.kind \in {"success", "warning"}

\* C40: every bulk operation terminates when every request is answered, with
\* success or failure: a collectAll, a v2 / v3 import or a confirmed eraseAll
\* that is under way leads to its final report
C40_BulkTerminates ==
    (job.pc \notin {"idle", "confirm2"}) ~> FinalReport

\* an erase has ended with its report although a request of it failed
C40_Witness ==
    /\ job.pc = "idle"
    /\ report.op = "erase"
    /\ report.kind = "warning"
    /\ report.totalErrors > 0

====
